---- MODULE Spec2Model ----
(***************************************************************************)
(* A model of the Capture Hi-C aggregation / differential-test pipeline of *)
(* HiCExplorer:                                                            *)
(*   - the parallel dispatcher: call_multi_core of chicAggregateStatistic  *)
(*     and the dispatch loops of chicDifferentialTest.main,                *)
(*     chicExportData.main and chicPlotViewpoint.main, together with       *)
(*     their worker processes and the opening of the output store;         *)
(*   - the interval aggregator filter_scores_target_list;                  *)
(*   - the statistical tests chisquare_test and fisher_exact_test;         *)
(*   - the writers writeAggregateHDF and writeResultHDF.                   *)
(* Python lists indexed from 0 are functions over 0..n-1 when the code     *)
(* indexes them and sequences when the code slices or concatenates them.   *)
(***************************************************************************)
EXTENDS Integers, Sequences, FiniteSets, TLC

(***************************************************************************)
(* Bounds of the model.                                                    *)
(***************************************************************************)
MaxItems == 4

MaxThreads == 3

MaxTargets == 4

\* The samples (matrices) stored in the interaction file.
MaxMatrices == 2

\* Bounds of the inputs of the interval aggregator.
MaxRecords == 2

MaxRegions == 2

MaxPos == 2

(***************************************************************************)
(* Python values.                                                          *)
(***************************************************************************)
\* Python's None, and a value that is not None.
NoneVal == [isNone |-> TRUE, val |-> <<>>]

Some(v) == [isNone |-> FALSE, val |-> v]

Min2(a, b) == IF a < b THEN a ELSE b

\* s[a:b] and s[a:] for non-negative a, b.
PySlice(s, a, b) == SubSeq(s, Min2(a, Len(s)) + 1, Min2(b, Len(s)))

PySliceFrom(s, a) == SubSeq(s, Min2(a, Len(s)) + 1, Len(s))

\* A string is a sequence of characters.
FailPrefix == <<"F", "a", "i", "l", ":", " ">>

FailMarker == <<"F", "a", "i", "l", ":">>

Digit == <<"0", "1", "2", "3", "4", "5", "6", "7", "8", "9">>

\* str(exp) + traceback.format_exc() of the exception raised in worker w.
ExcText(w) == <<"e", "x", "c", Digit[w + 1]>>

\* A message on a queue: a string or a list (the success payload).
StrMsg(s) == [isStr |-> TRUE, str |-> s, payload |-> <<>>]

ListMsg(p) == [isStr |-> FALSE, str |-> <<>>, payload |-> p]

\* 'Fail:' in data: substring test on a string, element test on a list (the
\* elements of a payload are lists, never the string 'Fail:').
ContainsFail(data) ==
    IF data.isStr
    THEN \E k \in 0..(Len(data.str) - Len(FailMarker)) :
            SubSeq(data.str, k + 1, k + Len(FailMarker)) = FailMarker
    ELSE FALSE

VARIABLES
    tool,                   \* which program runs: "aggregate", "differential",
                            \* "export" or "plot"
    requested,              \* --threads as given on the command line
    keys_interactionFile,   \* the samples stored in the interaction file
    threads,                \* pArgs.threads / args.threads
    pInteractionFilesList,  \* work list of call_multi_core
    pTargetFileList,        \* target list of call_multi_core
    aggregatedList,         \* work list of chicDifferentialTest.main
    emptyItems,             \* work items whose aggregated data is empty
    fileList,               \* work list of chicExportData.main
    interactionFileList,    \* work list of chicPlotViewpoint.main
    pc,                     \* position of the parent process
    loop_i,                 \* the loop variable i of the parent
    interactionFilesPerThread,
    kwargs,                 \* arguments each worker process was started with
    queue,                  \* queue[i]: None or the Queue with its messages
    process,                \* process[i]: None or the Process handle
    worker,                 \* state of worker process i
    thread_done,
    all_data_collected,
    fail_flag,
    fail_message,
    outfile_names_list,
    accepted_scores_list,
    accepted_data,
    rejected_data,
    all_data,
    stringIO_data,
    file_name_list,
    images_array,
    main_result,            \* what the dispatch returned to main
    logged,                 \* argument of log.error, None if not called
    exit_status,            \* exit status of the program, -1 while running
    store,                  \* the output store: "absent", "open", "closed"
    received,               \* messages taken from the queues, in order
    aggPc,                  \* position in filter_scores_target_list
    pScoresDictionary,      \* the dict of records: keys in insertion order, values
    inputScores,            \* pScoresDictionary as it was when the call began
    pTargetList,            \* None or the target regions stored for the item
    pTargetIntervalTree,    \* None or the prebuilt interval index
    target_regions_intervaltree,
    same_target_dict,       \* list of (target interval, keys), insertion order
    accepted_scores,        \* the returned dict, None before the return
    aggError,               \* the message logged and raised by the call, or None
    testPc,                 \* position in chisquare_test / fisher_exact_test
    statisticTest,          \* pArgs.statisticTest: "chi2" or "fisher"
    emptyTableRaises,       \* whether chi2_contingency raises on an all-zero table
    pDataFile1,             \* the [sum of interactions, raw target] pairs of file 1
    pDataFile2,             \* and of file 2
    pAlpha,
    test_result,
    accepted,
    rejected,
    zero_values_counter,
    hdfPc,                  \* position in writeAggregateHDF / writeResultHDF
    hdfWriter,              \* which of the two runs: "aggregate" or "result"
    hdfItems,               \* the work items to write, with their data
    hdfI,                   \* how many items the loop has gone through
    ioFault,                \* the item at which the file system fails, 0: none
    h5Handle,               \* the h5py.File: "unopened", "open" or "closed"
    h5Groups,               \* the paths of the groups of the file
    h5Data,                 \* the datasets written, by path of their group
    h5Links,                \* the links of the genes groups
    hdfError                \* the exception that ended the writer, or None

dispVars == <<tool, requested, keys_interactionFile, threads, pInteractionFilesList, pTargetFileList,
              aggregatedList, emptyItems, fileList, interactionFileList, pc,
              loop_i, interactionFilesPerThread,
              kwargs, queue, process, worker, thread_done, all_data_collected,
              fail_flag, fail_message, outfile_names_list, accepted_scores_list,
              accepted_data, rejected_data, all_data, stringIO_data,
              file_name_list, images_array, main_result, logged, exit_status,
              store, received>>

aggVars == <<aggPc, pScoresDictionary, inputScores, pTargetList,
             pTargetIntervalTree, target_regions_intervaltree,
             same_target_dict, accepted_scores, aggError>>

testVars == <<testPc, statisticTest, emptyTableRaises, pDataFile1, pDataFile2,
              pAlpha, test_result, accepted, rejected, zero_values_counter>>

hdfVars == <<hdfPc, hdfWriter, hdfItems, hdfI, ioFault, h5Handle, h5Groups,
             h5Data, h5Links, hdfError>>

\* What no step of the dispatcher changes: its inputs, the aggregator, the
\* statistical tests and the content of the output file.
inputVars == <<tool, requested, keys_interactionFile, pInteractionFilesList, pTargetFileList,
               aggregatedList, emptyItems, fileList, interactionFileList,
               aggVars, testVars, hdfVars>>

resultVars == <<outfile_names_list, accepted_scores_list, accepted_data,
                rejected_data, all_data, stringIO_data, file_name_list,
                images_array>>

failVars == <<fail_flag, fail_message>>

vars == <<dispVars, aggVars, testVars, hdfVars>>

(***************************************************************************)
(* The work a worker does for one item.                                    *)
(***************************************************************************)
\* accepted_scores of work item x aggregated against target t.
Score(x, t) == <<x, t>>

\* The entries run_statistical_tests appends for work item x.
AcceptedOf(x) == <<x, 1>>

RejectedOf(x) == <<x, 2>>

AllOf(x) == <<x, 3>>

\* The name and the content of the text file exportData makes of item x.
FileNameOf(x) == <<x, 4>>

FileContentOf(x) == <<x, 5>>

\* The image and the file name plot_images makes of item x.
ImageOf(x) == <<x, 6>>

PlotNameOf(x) == <<x, 7>>

IndexSet(T) == 0..(T - 1)

NoneList(T) == [k \in IndexSet(T) |-> NoneVal]

(***************************************************************************)
(* The parent process before the dispatch.                                 *)
(***************************************************************************)
EmptyFun == [k \in {} |-> NoneVal]

NoArgs == [pInteractionFilesList |-> <<>>, pTargetList |-> <<>>,
           pOneTarget |-> FALSE]

\* The aggregator when no call of it is modelled.
AggIdle ==
    /\ aggPc = "idle"
    /\ pScoresDictionary = [keys |-> <<>>, val |-> <<>>]
    /\ inputScores = [keys |-> <<>>, val |-> <<>>]
    /\ pTargetList = NoneVal
    /\ pTargetIntervalTree = NoneVal
    /\ target_regions_intervaltree = NoneVal
    /\ same_target_dict = <<>>
    /\ accepted_scores = NoneVal
    /\ aggError = NoneVal

\* The statistical tests when no call of them is modelled.
TestIdle ==
    /\ testPc = "idle"
    /\ statisticTest = "chi2"
    /\ emptyTableRaises = FALSE
    /\ pDataFile1 = <<>>
    /\ pDataFile2 = <<>>
    /\ pAlpha = <<1, 1>>
    /\ test_result = <<>>
    /\ accepted = <<>>
    /\ rejected = <<>>
    /\ zero_values_counter = 0

\* The writers of the output file when no call of them is modelled.
HdfIdle ==
    /\ hdfPc = "idle"
    /\ hdfWriter = "aggregate"
    /\ hdfItems = <<>>
    /\ hdfI = 0
    /\ ioFault = 0
    /\ h5Handle = "unopened"
    /\ h5Groups = {}
    /\ h5Data = {}
    /\ h5Links = {}
    /\ hdfError = NoneVal

\* Lines 452-476 of chicAggregateStatistic.main: how many pairs of viewpoints
\* interactionList may hold.  With fewer than two samples the loop over the
\* pairs of samples is not entered.
InteractionListLengthsAny(keys) == 0..MaxItems

InteractionListLengths(keys) == IF Len(keys) > 1 THEN 0..MaxItems ELSE {0}

\* The text of the log.error of line 476.
OnlyOnePresent == <<"o", "n", "l", "y", " ", "o", "n", "e">>

Init ==
    /\ AggIdle
    /\ TestIdle
    /\ HdfIdle
    /\ tool \in {"aggregate", "differential", "export", "plot"}
    /\ requested \in 1..MaxThreads
    /\ IF tool = "aggregate"
       THEN \E m \in 0..MaxMatrices : keys_interactionFile = [k \in 1..m |-> k]
       ELSE keys_interactionFile = <<>>
    /\ \E n \in IF tool = "aggregate"
                THEN InteractionListLengths(keys_interactionFile)
                ELSE 0..MaxItems :
        LET items == [k \in 1..n |-> k] IN
        /\ pInteractionFilesList = IF tool = "aggregate" THEN items ELSE <<>>
        /\ aggregatedList = IF tool = "differential" THEN items ELSE <<>>
        /\ fileList = IF tool = "export" THEN items ELSE <<>>
        /\ interactionFileList = IF tool = "plot" THEN items ELSE <<>>
        /\ IF tool = "aggregate"
           THEN \E m \in 0..MaxTargets :
                    pTargetFileList = [k \in 1..m |-> 10 + k]
           ELSE pTargetFileList = <<>>
        /\ IF tool = "differential"
           THEN emptyItems \in SUBSET (1..n)
           ELSE emptyItems = {}
    /\ threads = requested
    /\ pc = "main"
    /\ loop_i = 0
    /\ interactionFilesPerThread = 0
    /\ kwargs = EmptyFun
    /\ queue = EmptyFun
    /\ process = EmptyFun
    /\ worker = EmptyFun
    /\ thread_done = EmptyFun
    /\ all_data_collected = FALSE
    /\ fail_flag = FALSE
    /\ fail_message = <<>>
    /\ outfile_names_list = EmptyFun
    /\ accepted_scores_list = EmptyFun
    /\ accepted_data = EmptyFun
    /\ rejected_data = EmptyFun
    /\ all_data = EmptyFun
    /\ stringIO_data = EmptyFun
    /\ file_name_list = EmptyFun
    /\ images_array = EmptyFun
    /\ main_result = NoneVal
    /\ logged = NoneVal
    /\ exit_status = -1
    /\ store = "absent"
    /\ received = <<>>

(***************************************************************************)
(* call_multi_core: setup and start of the workers.                        *)
(***************************************************************************)
\* The requested worker count taken as it is.
ClampThreadsNever(n, t) == t

ClampThreads(n, t) == IF n < t THEN n ELSE t

\* Every worker, the last one too, gets exactly per items.
ChunkOfNoRemainder(list, k, T, per) == PySlice(list, k * per, (k + 1) * per)

\* The slice of list handed to worker k of T when every worker but the last
\* gets per items.
ChunkOf(list, k, T, per) ==
    IF k < T - 1
    THEN PySlice(list, k * per, (k + 1) * per)
    ELSE PySliceFrom(list, k * per)

\* The arrays both dispatch loops allocate, one slot per worker.
AllocateWorkers(T) ==
    /\ queue' = NoneList(T)
    /\ process' = [k \in IndexSet(T) |-> "None"]
    /\ thread_done' = [k \in IndexSet(T) |-> FALSE]
    /\ kwargs' = [k \in IndexSet(T) |-> NoArgs]
    /\ worker' = [k \in IndexSet(T) |-> "unstarted"]
    /\ all_data_collected' = FALSE
    /\ fail_flag' = FALSE
    /\ fail_message' = <<>>
    /\ loop_i' = 0

\* Lines 476-482 of main and the setup of call_multi_core.
CallMultiCore ==
    /\ pc = "main"
    /\ tool = "aggregate"
    /\ logged' = IF Len(keys_interactionFile) > 1
                 THEN logged
                 ELSE Some(OnlyOnePresent)
    /\ LET T == ClampThreads(Len(pInteractionFilesList), requested) IN
        /\ threads' = T
        /\ outfile_names_list' = NoneList(T)
        /\ accepted_scores_list' = NoneList(T)
        /\ AllocateWorkers(T)
        /\ IF T = 0
           THEN \* len(pInteractionFilesList) // 0 raises ZeroDivisionError
                /\ pc' = "crashed"
                /\ exit_status' = 1
                /\ UNCHANGED interactionFilesPerThread
           ELSE /\ interactionFilesPerThread' =
                        Len(pInteractionFilesList) \div T
                /\ pc' = "spawn"
                /\ UNCHANGED exit_status
    /\ UNCHANGED <<inputVars, accepted_data, rejected_data, all_data,
                   stringIO_data, file_name_list, images_array, main_result,
                   store, received>>

\* Creating the queue of worker loop_i and starting its process.
LaunchWorker(args) ==
    /\ kwargs' = [kwargs EXCEPT ![loop_i] = args]
    /\ queue' = [queue EXCEPT ![loop_i] = Some(<<>>)]
    /\ process' = [process EXCEPT ![loop_i] = "Process"]
    /\ worker' = [worker EXCEPT ![loop_i] = "running"]
    /\ loop_i' = loop_i + 1
    /\ UNCHANGED <<inputVars, threads, pc, interactionFilesPerThread,
                   thread_done, all_data_collected, failVars, resultVars,
                   main_result, logged, exit_status, store, received>>

\* Every worker is handed the whole target list.
StartWorkerWholeTargets ==
    /\ pc = "spawn"
    /\ tool = "aggregate"
    /\ loop_i < threads
    /\ LET one_target == Len(pTargetFileList) = 1
           files == ChunkOf(pInteractionFilesList, loop_i, threads,
                            interactionFilesPerThread)
           targets == IF one_target
                      THEN <<pTargetFileList[1]>>
                      ELSE pTargetFileList
       IN  LaunchWorker([pInteractionFilesList |-> files,
                         pTargetList |-> targets,
                         pOneTarget |-> one_target])

\* One iteration of the loop that starts the workers.
StartWorker ==
    /\ pc = "spawn"
    /\ tool = "aggregate"
    /\ loop_i < threads
    /\ LET one_target == Len(pTargetFileList) = 1
           files == ChunkOf(pInteractionFilesList, loop_i, threads,
                            interactionFilesPerThread)
           targets == IF one_target
                      THEN <<pTargetFileList[1]>>
                      ELSE ChunkOf(pTargetFileList, loop_i, threads,
                                   interactionFilesPerThread)
       IN  LaunchWorker([pInteractionFilesList |-> files,
                         pTargetList |-> targets,
                         pOneTarget |-> one_target])

\* The start loop is over: the parent enters the polling loop.
EnterPolling ==
    /\ pc' = "poll"
    /\ loop_i' = 0
    /\ UNCHANGED <<inputVars, threads, interactionFilesPerThread, kwargs,
                   queue, process, worker, thread_done, all_data_collected,
                   failVars, resultVars, main_result, logged, exit_status,
                   store, received>>

StartPolling ==
    /\ pc = "spawn"
    /\ tool = "aggregate"
    /\ loop_i = threads
    /\ EnterPolling

(***************************************************************************)
(* The worker of the aggregation tool.                                     *)
(***************************************************************************)
\* The failure branch falls through to the put of the success branch.
PutMessageTwice(w, msg) ==
    /\ queue' = [queue EXCEPT ![w] = Some(queue[w].val \o <<msg, msg>>)]
    /\ worker' = [worker EXCEPT ![w] = "posted"]
    /\ UNCHANGED <<inputVars, threads, pc, loop_i, interactionFilesPerThread,
                   kwargs, process, thread_done, all_data_collected, failVars,
                   resultVars, main_result, logged, exit_status, store,
                   received>>

\* What the worker puts on its queue.
PutMessage(w, msg) ==
    /\ queue' = [queue EXCEPT ![w] = Some(Append(queue[w].val, msg))]
    /\ worker' = [worker EXCEPT ![w] = "posted"]
    /\ UNCHANGED <<inputVars, threads, pc, loop_i, interactionFilesPerThread,
                   kwargs, process, thread_done, all_data_collected, failVars,
                   resultVars, main_result, logged, exit_status, store,
                   received>>

\* [outfile_names_list, accepted_scores_list] of a worker started with args.
CompilationPayload(args) ==
    LET files == args.pInteractionFilesList
        target(j) == IF args.pOneTarget THEN args.pTargetList[1]
                                        ELSE args.pTargetList[j]
    IN  <<files, [j \in 1..Len(files) |-> Score(files[j], target(j))]>>

\* pTargetList[i] exists for every work item of the worker.
TargetIndexInRange(args) ==
    \/ args.pOneTarget
    \/ Len(args.pInteractionFilesList) <= Len(args.pTargetList)

\* The worker runs to its end: it puts its payload, or, when reading a file
\* or indexing the target list raised, the failure message.
RunTargetListCompilation(w) ==
    /\ tool = "aggregate"
    /\ w \in DOMAIN worker
    /\ worker[w] = "running"
    /\ \E raised \in (IF TargetIndexInRange(kwargs[w]) THEN BOOLEAN ELSE {TRUE}) :
        PutMessage(w, IF raised
                      THEN StrMsg(FailPrefix \o ExcText(w))
                      ELSE ListMsg(CompilationPayload(kwargs[w])))

\* The worker function returns and the process ends.
ProcessEnds(w) ==
    /\ w \in DOMAIN worker
    /\ worker[w] = "posted"
    /\ worker' = [worker EXCEPT ![w] = "exited"]
    /\ UNCHANGED <<inputVars, threads, pc, loop_i, interactionFilesPerThread,
                   kwargs, queue, process, thread_done, all_data_collected,
                   failVars, resultVars, main_result, logged, exit_status,
                   store, received>>

CompilationReturns(w) ==
    /\ tool = "aggregate"
    /\ ProcessEnds(w)

(***************************************************************************)
(* call_multi_core: the polling loop.                                      *)
(***************************************************************************)
\* Only the first failure message is kept.
NewFailMessageKeepFirst(old, flag, data) ==
    IF flag THEN old ELSE PySliceFrom(data.str, 6)

\* fail_message after a failure message data has been read.
NewFailMessage(old, flag, data) == PySliceFrom(data.str, 6)

\* The payload goes to the first slot that is still free.
PlaceResultByArrival(list, k, value) ==
    LET free == {j \in DOMAIN list : list[j].isNone}
        first == CHOOSE j \in free : \A h \in free : j <= h
    IN  [list EXCEPT ![first] = Some(value)]

\* Where the payload of worker k goes in a result list.
PlaceResult(list, k, value) == [list EXCEPT ![k] = Some(value)]

\* The loop ends as soon as one worker is done.
AllDataCollectedAny(done) == \E k \in DOMAIN done : done[k]

\* all_data_collected as computed from thread_done after a polling pass.
AllDataCollected(done) == \A k \in DOMAIN done : done[k]

\* The parent gives up on a worker whose queue is empty and marks it done.
NothingToReadTimesOut ==
    /\ queue[loop_i].isNone \/ queue[loop_i].val = <<>>
    /\ loop_i' = loop_i + 1
    /\ thread_done' = [thread_done EXCEPT ![loop_i] = TRUE]
    /\ UNCHANGED <<inputVars, threads, pc, interactionFilesPerThread, kwargs,
                   queue, process, worker, all_data_collected,
                   failVars, resultVars, main_result, logged, exit_status,
                   store, received>>

\* The parent looks at queue[loop_i] and finds nothing to read.
NothingToRead ==
    /\ queue[loop_i].isNone \/ queue[loop_i].val = <<>>
    /\ loop_i' = loop_i + 1
    /\ UNCHANGED <<inputVars, threads, pc, interactionFilesPerThread, kwargs,
                   queue, process, worker, thread_done, all_data_collected,
                   failVars, resultVars, main_result, logged, exit_status,
                   store, received>>

\* The parent reads the message of queue[loop_i] and drops the queue; the
\* payload is stored by the caller.
ReadMessage ==
    /\ ~queue[loop_i].isNone
    /\ queue[loop_i].val # <<>>
    /\ LET data == Head(queue[loop_i].val) IN
        /\ received' = Append(received, [w |-> loop_i, data |-> data])
        /\ IF ContainsFail(data)
           THEN /\ fail_flag' = TRUE
                /\ fail_message' = NewFailMessage(fail_message, fail_flag, data)
           ELSE UNCHANGED failVars
    /\ queue' = [queue EXCEPT ![loop_i] = NoneVal]
    /\ pc' = "join"
    /\ UNCHANGED <<inputVars, threads, loop_i, interactionFilesPerThread,
                   kwargs, process, worker, thread_done, all_data_collected,
                   main_result, logged, exit_status, store>>

PollQueue ==
    /\ pc = "poll"
    /\ tool = "aggregate"
    /\ loop_i < threads
    /\ \/ NothingToRead
       \/ /\ ReadMessage
          /\ LET data == Head(queue[loop_i].val) IN
             IF ContainsFail(data)
             THEN UNCHANGED resultVars
             ELSE /\ outfile_names_list' =
                        PlaceResult(outfile_names_list, loop_i, data.payload[1])
                  /\ accepted_scores_list' =
                        PlaceResult(accepted_scores_list, loop_i, data.payload[2])
                  /\ UNCHANGED <<accepted_data, rejected_data, all_data,
                                 stringIO_data, file_name_list, images_array>>

\* The handle is dropped without waiting for the process to end.
JoinWorkerNoWait ==
    /\ process' = [process EXCEPT ![loop_i] = "None"]
    /\ thread_done' = [thread_done EXCEPT ![loop_i] = TRUE]
    /\ loop_i' = loop_i + 1
    /\ pc' = "poll"
    /\ UNCHANGED <<inputVars, threads, interactionFilesPerThread, kwargs,
                   queue, worker, all_data_collected, failVars, resultVars,
                   main_result, logged, exit_status, store, received>>

\* process[i].join() returns once the worker process has ended; the handle is
\* dropped and the worker marked done.
JoinWorker ==
    /\ worker[loop_i] = "exited"
    /\ process' = [process EXCEPT ![loop_i] = "None"]
    /\ worker' = [worker EXCEPT ![loop_i] = "joined"]
    /\ thread_done' = [thread_done EXCEPT ![loop_i] = TRUE]
    /\ loop_i' = loop_i + 1
    /\ pc' = "poll"
    /\ UNCHANGED <<inputVars, threads, interactionFilesPerThread, kwargs,
                   queue, all_data_collected, failVars, resultVars,
                   main_result, logged, exit_status, store, received>>

Join ==
    /\ pc = "join"
    /\ tool = "aggregate"
    /\ JoinWorker

\* The end of one pass over the queues.
FinishPass ==
    /\ loop_i = threads
    /\ all_data_collected' = AllDataCollected(thread_done)
    /\ pc' = IF AllDataCollected(thread_done) THEN "collected" ELSE "poll"
    /\ loop_i' = 0
    /\ UNCHANGED <<inputVars, threads, interactionFilesPerThread, kwargs,
                   queue, process, worker, thread_done, failVars, resultVars,
                   main_result, logged, exit_status, store, received>>

EndPass ==
    /\ pc = "poll"
    /\ tool = "aggregate"
    /\ FinishPass

(***************************************************************************)
(* call_multi_core: after the loop.                                        *)
(***************************************************************************)
\* What the parent does after the loop, given fail_flag.
AfterLoop(flag) == IF flag THEN "exit" ELSE "return"

\* [item for sublist in list for item in sublist] over slots 0..k-1.
RECURSIVE FlattenUpTo(_, _)
FlattenUpTo(list, k) ==
    IF k = 0 THEN <<>> ELSE FlattenUpTo(list, k - 1) \o list[k - 1].val

Flatten(list) == FlattenUpTo(list, Cardinality(DOMAIN list))

\* Iterating a slot that is still None raises TypeError.
CanFlatten(list) == \A k \in DOMAIN list : ~list[k].isNone

\* The failure is logged and empty lists are returned instead of exiting.
LogAndReturnEmpty ==
    /\ logged' = Some(fail_message)
    /\ main_result' = Some(<<>>)
    /\ pc' = "returned"
    /\ UNCHANGED <<inputVars, threads, loop_i, interactionFilesPerThread,
                   kwargs, queue, process, worker, thread_done,
                   all_data_collected, failVars, resultVars, exit_status,
                   store, received>>

\* log.error(fail_message); exit(1)
LogAndExit ==
    /\ logged' = Some(fail_message)
    /\ exit_status' = 1
    /\ pc' = "exited"
    /\ UNCHANGED <<inputVars, threads, loop_i, interactionFilesPerThread,
                   kwargs, queue, process, worker, thread_done,
                   all_data_collected, failVars, resultVars, main_result,
                   store, received>>

\* The dispatch hands the flattened lists to main, or dies of the TypeError.
ReturnLists(ok, lists) ==
    /\ IF ok
       THEN /\ main_result' = Some(lists)
            /\ pc' = "returned"
            /\ UNCHANGED exit_status
       ELSE /\ pc' = "crashed"
            /\ exit_status' = 1
            /\ UNCHANGED main_result
    /\ UNCHANGED <<inputVars, threads, loop_i, interactionFilesPerThread,
                   kwargs, queue, process, worker, thread_done,
                   all_data_collected, failVars, resultVars, logged, store,
                   received>>

Finish ==
    /\ pc = "collected"
    /\ tool = "aggregate"
    /\ IF AfterLoop(fail_flag) = "exit"
       THEN LogAndExit
       ELSE ReturnLists(CanFlatten(outfile_names_list)
                            /\ CanFlatten(accepted_scores_list),
                        <<Flatten(outfile_names_list),
                          Flatten(accepted_scores_list)>>)

(***************************************************************************)
(* The output store.                                                       *)
(***************************************************************************)
\* h5py.File(pOutFileName, 'w'): the file is created or truncated.
OpenStore ==
    /\ pc = "returned"
    /\ store' = "open"
    /\ pc' = "writing"
    /\ UNCHANGED <<inputVars, threads, loop_i, interactionFilesPerThread,
                   kwargs, queue, process, worker, thread_done,
                   all_data_collected, failVars, resultVars, main_result,
                   logged, exit_status, received>>

\* The groups are written and the file is closed; the program ends.
CloseStore ==
    /\ pc = "writing"
    /\ store' = "closed"
    /\ pc' = "done"
    /\ exit_status' = 0
    /\ UNCHANGED <<inputVars, threads, loop_i, interactionFilesPerThread,
                   kwargs, queue, process, worker, thread_done,
                   all_data_collected, failVars, resultVars, main_result,
                   logged, received>>

WriteAggregateHDFOpen ==
    /\ tool = "aggregate"
    /\ OpenStore

WriteAggregateHDFClose ==
    /\ tool = "aggregate"
    /\ CloseStore

(***************************************************************************)
(* chicDifferentialTest.main: the same dispatch, written out in main.      *)
(***************************************************************************)
DiffSetup ==
    /\ pc = "main"
    /\ tool = "differential"
    /\ threads' = requested
    /\ all_data' = NoneList(requested)
    /\ accepted_data' = NoneList(requested)
    /\ rejected_data' = NoneList(requested)
    /\ interactionFilesPerThread' = Len(aggregatedList) \div requested
    /\ AllocateWorkers(requested)
    /\ pc' = "spawn"
    /\ UNCHANGED <<inputVars, outfile_names_list, accepted_scores_list,
                   stringIO_data, file_name_list, images_array, main_result,
                   logged, exit_status, store, received>>

DiffStartWorker ==
    /\ pc = "spawn"
    /\ tool = "differential"
    /\ loop_i < threads
    /\ LaunchWorker([pInteractionFilesList |->
                        ChunkOf(aggregatedList, loop_i, threads,
                                interactionFilesPerThread),
                     pTargetList |-> <<>>,
                     pOneTarget |-> FALSE])

DiffStartPolling ==
    /\ pc = "spawn"
    /\ tool = "differential"
    /\ loop_i = threads
    /\ EnterPolling

\* The work items of files whose aggregated data is not empty: the others
\* are skipped with continue.
RECURSIVE Tested(_)
Tested(files) ==
    IF files = <<>> THEN <<>>
    ELSE IF Head(files) \in emptyItems
         THEN Tested(Tail(files))
         ELSE <<Head(files)>> \o Tested(Tail(files))

\* [accepted_list, rejected_list, all_results_list] of a worker.
StatisticsPayload(args) ==
    LET t == Tested(args.pInteractionFilesList) IN
    <<[j \in 1..Len(t) |-> AcceptedOf(t[j])],
      [j \in 1..Len(t) |-> RejectedOf(t[j])],
      [j \in 1..Len(t) |-> AllOf(t[j])]>>

RunStatisticalTests(w) ==
    /\ tool = "differential"
    /\ w \in DOMAIN worker
    /\ worker[w] = "running"
    /\ \E raised \in BOOLEAN :
        PutMessage(w, IF raised
                      THEN StrMsg(FailPrefix \o ExcText(w))
                      ELSE ListMsg(StatisticsPayload(kwargs[w])))

StatisticsReturns(w) ==
    /\ tool = "differential"
    /\ ProcessEnds(w)

DiffPollQueue ==
    /\ pc = "poll"
    /\ tool = "differential"
    /\ loop_i < threads
    /\ \/ NothingToRead
       \/ /\ ReadMessage
          /\ LET data == Head(queue[loop_i].val) IN
             IF ContainsFail(data)
             THEN UNCHANGED resultVars
             ELSE /\ accepted_data' =
                        PlaceResult(accepted_data, loop_i, data.payload[1])
                  /\ rejected_data' =
                        PlaceResult(rejected_data, loop_i, data.payload[2])
                  /\ all_data' =
                        PlaceResult(all_data, loop_i, data.payload[3])
                  /\ UNCHANGED <<outfile_names_list, accepted_scores_list,
                                 stringIO_data, file_name_list, images_array>>

DiffJoin ==
    /\ pc = "join"
    /\ tool = "differential"
    /\ JoinWorker

DiffEndPass ==
    /\ pc = "poll"
    /\ tool = "differential"
    /\ FinishPass

DiffFinish ==
    /\ pc = "collected"
    /\ tool = "differential"
    /\ IF AfterLoop(fail_flag) = "exit"
       THEN LogAndExit
       ELSE ReturnLists(CanFlatten(accepted_data) /\ CanFlatten(rejected_data)
                            /\ CanFlatten(all_data),
                        <<Flatten(accepted_data), Flatten(rejected_data),
                          Flatten(all_data)>>)

WriteResultHDFOpen ==
    /\ tool = "differential"
    /\ OpenStore

WriteResultHDFClose ==
    /\ tool = "differential"
    /\ CloseStore

(***************************************************************************)
(* chicExportData.main: the same dispatch once more.                *)
(***************************************************************************)
ExportSetup ==
    /\ pc = "main"
    /\ tool = "export"
    /\ threads' = requested
    /\ file_name_list' = NoneList(requested)
    /\ stringIO_data' = NoneList(requested)
    /\ interactionFilesPerThread' = Len(fileList) \div requested
    /\ AllocateWorkers(requested)
    /\ pc' = "spawn"
    /\ UNCHANGED <<inputVars, outfile_names_list, accepted_scores_list,
                   accepted_data, rejected_data, all_data, images_array,
                   main_result, logged, exit_status, store, received>>

ExportStartWorker ==
    /\ pc = "spawn"
    /\ tool = "export"
    /\ loop_i < threads
    /\ LaunchWorker([pInteractionFilesList |->
                        ChunkOf(fileList, loop_i, threads,
                                interactionFilesPerThread),
                     pTargetList |-> <<>>,
                     pOneTarget |-> FALSE])

ExportStartPolling ==
    /\ pc = "spawn"
    /\ tool = "export"
    /\ loop_i = threads
    /\ EnterPolling

\* [file_list, file_content_list] of a worker started with args.
ExportPayload(args) ==
    LET files == args.pInteractionFilesList IN
    <<[j \in 1..Len(files) |-> FileNameOf(files[j])],
      [j \in 1..Len(files) |-> FileContentOf(files[j])]>>

\* The worker runs to its end: it puts its payload or the failure message.
ExportData(w) ==
    /\ tool = "export"
    /\ w \in DOMAIN worker
    /\ worker[w] = "running"
    /\ \E raised \in BOOLEAN :
        PutMessage(w, IF raised
                      THEN StrMsg(FailPrefix \o ExcText(w))
                      ELSE ListMsg(ExportPayload(kwargs[w])))

ExportDataReturns(w) ==
    /\ tool = "export"
    /\ ProcessEnds(w)

ExportPollQueue ==
    /\ pc = "poll"
    /\ tool = "export"
    /\ loop_i < threads
    /\ \/ NothingToRead
       \/ /\ ReadMessage
          /\ LET data == Head(queue[loop_i].val) IN
             IF ContainsFail(data)
             THEN UNCHANGED resultVars
             ELSE /\ file_name_list' =
                        PlaceResult(file_name_list, loop_i, data.payload[1])
                  /\ stringIO_data' =
                        PlaceResult(stringIO_data, loop_i, data.payload[2])
                  /\ UNCHANGED <<outfile_names_list, accepted_scores_list,
                                 accepted_data, rejected_data, all_data,
                                 images_array>>

ExportJoin ==
    /\ pc = "join"
    /\ tool = "export"
    /\ JoinWorker

ExportEndPass ==
    /\ pc = "poll"
    /\ tool = "export"
    /\ FinishPass

\* After the loop: exit(1), or the two lists flattened for the archive.
ExportFinish ==
    /\ pc = "collected"
    /\ tool = "export"
    /\ IF AfterLoop(fail_flag) = "exit"
       THEN LogAndExit
       ELSE ReturnLists(CanFlatten(file_name_list) /\ CanFlatten(stringIO_data),
                        <<Flatten(file_name_list), Flatten(stringIO_data)>>)

\* tarfile.open(args.outFileName, "w:gz") and the end of the with block.
ExportTarOpen ==
    /\ tool = "export"
    /\ OpenStore

ExportTarClose ==
    /\ tool = "export"
    /\ CloseStore

(***************************************************************************)
(* chicPlotViewpoint.main: the same dispatch once more.             *)
(***************************************************************************)
PlotSetup ==
    /\ pc = "main"
    /\ tool = "plot"
    /\ threads' = requested
    /\ images_array' = NoneList(requested)
    /\ file_name_list' = NoneList(requested)
    /\ interactionFilesPerThread' = Len(interactionFileList) \div requested
    /\ AllocateWorkers(requested)
    /\ pc' = "spawn"
    /\ UNCHANGED <<inputVars, outfile_names_list, accepted_scores_list,
                   accepted_data, rejected_data, all_data, stringIO_data,
                   main_result, logged, exit_status, store, received>>

PlotStartWorker ==
    /\ pc = "spawn"
    /\ tool = "plot"
    /\ loop_i < threads
    /\ LaunchWorker([pInteractionFilesList |->
                        ChunkOf(interactionFileList, loop_i, threads,
                                interactionFilesPerThread),
                     pTargetList |-> <<>>,
                     pOneTarget |-> FALSE])

PlotStartPolling ==
    /\ pc = "spawn"
    /\ tool = "plot"
    /\ loop_i = threads
    /\ EnterPolling

\* [images_array, file_name_list] of a worker started with args.
PlotPayload(args) ==
    LET files == args.pInteractionFilesList IN
    <<[j \in 1..Len(files) |-> ImageOf(files[j])],
      [j \in 1..Len(files) |-> PlotNameOf(files[j])]>>

\* The worker runs to its end: it puts its payload or the failure message.
PlotImages(w) ==
    /\ tool = "plot"
    /\ w \in DOMAIN worker
    /\ worker[w] = "running"
    /\ \E raised \in BOOLEAN :
        PutMessage(w, IF raised
                      THEN StrMsg(FailPrefix \o ExcText(w))
                      ELSE ListMsg(PlotPayload(kwargs[w])))

PlotImagesReturns(w) ==
    /\ tool = "plot"
    /\ ProcessEnds(w)

PlotPollQueue ==
    /\ pc = "poll"
    /\ tool = "plot"
    /\ loop_i < threads
    /\ \/ NothingToRead
       \/ /\ ReadMessage
          /\ LET data == Head(queue[loop_i].val) IN
             IF ContainsFail(data)
             THEN UNCHANGED resultVars
             ELSE /\ images_array' =
                        PlaceResult(images_array, loop_i, data.payload[1])
                  /\ file_name_list' =
                        PlaceResult(file_name_list, loop_i, data.payload[2])
                  /\ UNCHANGED <<outfile_names_list, accepted_scores_list,
                                 accepted_data, rejected_data, all_data,
                                 stringIO_data>>

PlotJoin ==
    /\ pc = "join"
    /\ tool = "plot"
    /\ JoinWorker

PlotEndPass ==
    /\ pc = "poll"
    /\ tool = "plot"
    /\ FinishPass

\* After the loop: exit(1), or the two lists flattened for the archive.
PlotFinish ==
    /\ pc = "collected"
    /\ tool = "plot"
    /\ IF AfterLoop(fail_flag) = "exit"
       THEN LogAndExit
       ELSE ReturnLists(CanFlatten(images_array) /\ CanFlatten(file_name_list),
                        <<Flatten(images_array), Flatten(file_name_list)>>)

\* tarfile.open(args.outFileName, "w:gz") and the end of the with block.
PlotTarOpen ==
    /\ tool = "plot"
    /\ OpenStore

PlotTarClose ==
    /\ tool = "plot"
    /\ CloseStore

(***************************************************************************)
(* The dispatcher and its workers.                                         *)
(***************************************************************************)
Workers == IndexSet(MaxThreads)

Next ==
    \/ CallMultiCore
    \/ StartWorker
    \/ StartPolling
    \/ \E w \in Workers : RunTargetListCompilation(w)
    \/ \E w \in Workers : CompilationReturns(w)
    \/ PollQueue
    \/ Join
    \/ EndPass
    \/ Finish
    \/ WriteAggregateHDFOpen
    \/ WriteAggregateHDFClose
    \/ DiffSetup
    \/ DiffStartWorker
    \/ DiffStartPolling
    \/ \E w \in Workers : RunStatisticalTests(w)
    \/ \E w \in Workers : StatisticsReturns(w)
    \/ DiffPollQueue
    \/ DiffJoin
    \/ DiffEndPass
    \/ DiffFinish
    \/ WriteResultHDFOpen
    \/ WriteResultHDFClose
    \/ ExportSetup
    \/ ExportStartWorker
    \/ ExportStartPolling
    \/ \E w \in Workers : ExportData(w)
    \/ \E w \in Workers : ExportDataReturns(w)
    \/ ExportPollQueue
    \/ ExportJoin
    \/ ExportEndPass
    \/ ExportFinish
    \/ ExportTarOpen
    \/ ExportTarClose
    \/ PlotSetup
    \/ PlotStartWorker
    \/ PlotStartPolling
    \/ \E w \in Workers : PlotImages(w)
    \/ \E w \in Workers : PlotImagesReturns(w)
    \/ PlotPollQueue
    \/ PlotJoin
    \/ PlotEndPass
    \/ PlotFinish
    \/ PlotTarOpen
    \/ PlotTarClose

Spec == Init /\ [][Next]_vars

(***************************************************************************)
(* The aggregation tool under fair scheduling: the parent process goes on  *)
(* whenever it can (it is blocked only inside join), and every started     *)
(* worker process runs to the put of its message and to its end.           *)
(***************************************************************************)
InitAggregate == Init /\ tool = "aggregate"

Parent ==
    \/ CallMultiCore
    \/ StartWorker
    \/ StartPolling
    \/ PollQueue
    \/ Join
    \/ EndPass
    \/ Finish
    \/ WriteAggregateHDFOpen
    \/ WriteAggregateHDFClose

NextAggregate ==
    \/ Parent
    \/ \E w \in Workers : RunTargetListCompilation(w)
    \/ \E w \in Workers : CompilationReturns(w)

SpecFair ==
    /\ InitAggregate
    /\ [][NextAggregate]_vars
    /\ WF_vars(Parent)
    /\ \A w \in Workers : WF_vars(RunTargetListCompilation(w))
    /\ \A w \in Workers : WF_vars(CompilationReturns(w))


(***************************************************************************)
(* Properties of the dispatcher.                                           *)
(***************************************************************************)
WorkList ==
    CASE tool = "aggregate" -> pInteractionFilesList
      [] tool = "differential" -> aggregatedList
      [] tool = "export" -> fileList
      [] tool = "plot" -> interactionFileList

Started == {w \in DOMAIN worker : worker[w] # "unstarted"}

AllStarted == pc \in {"poll", "join", "collected", "exited", "returned",
                      "writing", "done"}

Returned == pc \in {"returned", "writing", "done"}

\* The workers whose failure message the parent has read, in reading order.
RECURSIVE FailedIn(_)
FailedIn(rcv) ==
    IF rcv = <<>> THEN <<>>
    ELSE IF Head(rcv).data.isStr
         THEN <<Head(rcv).w>> \o FailedIn(Tail(rcv))
         ELSE FailedIn(Tail(rcv))

\* Some worker has put a failure message, read or not yet read.
FailPosted ==
    \/ FailedIn(received) # <<>>
    \/ \E w \in DOMAIN queue :
          /\ ~queue[w].isNone
          /\ \E k \in 1..Len(queue[w].val) : queue[w].val[k].isStr

\* One run of run_target_list_compilation over the whole work list.
SequentialRun ==
    LET one_target == Len(pTargetFileList) = 1 IN
    CompilationPayload(
        [pInteractionFilesList |-> pInteractionFilesList,
         pTargetList |-> IF one_target THEN <<pTargetFileList[1]>>
                                       ELSE pTargetFileList,
         pOneTarget |-> one_target])

\* C1: whenever call_multi_core returns (every worker succeeded), the two
\* lists it returns are those of one sequential run of the worker over the
\* whole work list, item for item, whatever the order in which the workers
\* finished; a non-empty work list never makes the dispatch crash.
C1_OrderPreserved ==
    tool = "aggregate" =>
        /\ Returned => main_result = Some(SequentialRun)
        /\ Len(pInteractionFilesList) >= 1 => pc # "crashed"

\* Reached: the dispatch returned after a worker with a higher index was read
\* before a worker with a lower one, with one target per work item.
C1_Witness ==
    /\ tool = "aggregate"
    /\ pc = "returned"
    /\ Len(pTargetFileList) > 1
    /\ Len(pInteractionFilesList) > threads
    /\ \E a, b \in 1..Len(received) : a < b /\ received[a].w > received[b].w

\* C2: when call_multi_core exits, every worker has had its message read,
\* has ended and has been joined and the exit status is 1; and once a
\* worker has put a failure message the dispatch never returns lists.
C2_DrainThenExit ==
    tool = "aggregate" =>
        /\ pc = "exited" =>
              /\ exit_status = 1
              /\ Len(received) = threads
              /\ \A w \in IndexSet(threads) :
                    /\ \E k \in 1..Len(received) : received[k].w = w
                    /\ worker[w] = "joined"
                    /\ process[w] = "None"
                    /\ queue[w].isNone
        /\ FailPosted => ~Returned /\ main_result.isNone

\* Reached: the program exited after one worker failed and another succeeded
\* and was read after the failure.
C2_Witness ==
    /\ tool = "aggregate"
    /\ pc = "exited"
    /\ \E a, b \in 1..Len(received) :
          a < b /\ received[a].data.isStr /\ ~received[b].data.isStr

C4_NoWorkerWhileWriting ==
    store # "absent" =>
        /\ pc \in {"writing", "done"}
        /\ \A w \in DOMAIN worker :
              /\ worker[w] = "joined"
              /\ process[w] = "None"
              /\ thread_done[w]
              /\ \E k \in 1..Len(received) : received[k].w = w

\* Reached: the store is open after several workers ran.
C4_Witness ==
    /\ store = "open"
    /\ threads >= 2
    /\ Len(received) >= 2

\* C5: in both tools, once a failure message has been read the output store
\* is never created or truncated.
C5_NoOutputAfterFailure ==
    FailedIn(received) # <<>> => store = "absent" /\ pc \notin {"writing", "done"}

\* Reached: the differential tool ended after one worker failed and another
\* delivered results.
C5_Witness ==
    /\ tool = "differential"
    /\ pc = "exited"
    /\ \E k \in 1..Len(received) : ~received[k].data.isStr
    /\ store = "absent"

\* The work items worker w was started with.
Chunk(w) == kwargs[w].pInteractionFilesList

RECURSIVE ChunksUpTo(_)
ChunksUpTo(k) == IF k = 0 THEN <<>> ELSE ChunksUpTo(k - 1) \o Chunk(k - 1)

\* C6: with 1 <= T <= N the chunk of worker k is the contiguous slice that
\* starts at k * floor(N/T); the first T-1 chunks have floor(N/T) items and
\* the last has the other N - (T-1) * floor(N/T); the chunks in index order
\* make up the work list, so every item is in exactly one chunk.
C6_Partition ==
    LET N == Len(WorkList)
        T == threads
        q == N \div T
    IN  (pc # "main" /\ 1 <= T /\ T <= N) =>
            /\ \A w \in Started :
                  /\ Len(Chunk(w)) = IF w < T - 1 THEN q ELSE N - (T - 1) * q
                  /\ \A j \in 1..Len(Chunk(w)) : Chunk(w)[j] = WorkList[w * q + j]
            /\ AllStarted =>
                  /\ ChunksUpTo(T) = WorkList
                  /\ \A x \in 1..N :
                        Cardinality({w \in IndexSet(T) :
                            \E j \in 1..Len(Chunk(w)) : Chunk(w)[j] = WorkList[x]}) = 1

\* Reached: all workers are started and the last chunk holds a remainder.
C6_Witness ==
    /\ AllStarted
    /\ threads >= 2
    /\ Len(WorkList) > threads
    /\ Len(WorkList) % threads # 0

\* C7: in call_multi_core, with 1 <= N < requested threads exactly N workers
\* are started; and no worker is ever started with an empty chunk.
C7_Clamp ==
    LET N == Len(pInteractionFilesList) IN
    (tool = "aggregate" /\ pc # "main") =>
        /\ (1 <= N /\ N < requested) =>
              /\ threads = N
              /\ DOMAIN worker = IndexSet(N)
              /\ AllStarted => Cardinality(Started) = N
        /\ \A w \in Started : Len(Chunk(w)) >= 1

\* Reached: fewer items than requested workers, all workers started.
C7_Witness ==
    /\ tool = "aggregate"
    /\ Len(pInteractionFilesList) >= 2
    /\ Len(pInteractionFilesList) < requested
    /\ pc = "poll"

\* How many messages the parent has taken from the queue of worker w.
ReadFrom(w) == Cardinality({k \in 1..Len(received) : received[k].w = w})

\* The messages worker w has put so far: those still on its queue and those
\* the parent has taken from it.
Waiting(w) == IF queue[w].isNone THEN <<>> ELSE queue[w].val

PutBy(w) == Len(Waiting(w)) + ReadFrom(w)

MessagesOf(w) ==
    {Waiting(w)[k] : k \in 1..Len(Waiting(w))}
        \cup {received[k].data : k \in {h \in 1..Len(received) :
                                            received[h].w = w}}

\* The success payload of the worker function of the tool.
PayloadOf(w) ==
    CASE tool = "aggregate" -> CompilationPayload(kwargs[w])
      [] tool = "differential" -> StatisticsPayload(kwargs[w])
      [] tool = "export" -> ExportPayload(kwargs[w])
      [] tool = "plot" -> PlotPayload(kwargs[w])

LoopOver == pc \in {"collected", "exited", "returned", "writing", "done"}

\* C22: in all four tools a worker has put no message while it runs and
\* exactly one from the moment it has run to its end, which is its success
\* payload or a string that begins with 'Fail:'; the parent takes at most one
\* message from the queue of a worker, and exactly one from each by the time
\* the polling loop is over, after which the queue is dropped.
C22_OneShotChannel ==
    \A w \in DOMAIN worker :
        /\ PutBy(w) = IF worker[w] \in {"unstarted", "running"} THEN 0 ELSE 1
        /\ \A m \in MessagesOf(w) :
              IF m.isStr
              THEN SubSeq(m.str, 1, Len(FailMarker)) = FailMarker
              ELSE m = ListMsg(PayloadOf(w))
        /\ ReadFrom(w) <= 1
        /\ LoopOver => ReadFrom(w) = 1 /\ queue[w].isNone

\* Reached: the plotting tool exited after one worker put a failure message
\* and another its payload, each taken once.
C22_Witness ==
    /\ tool = "plot"
    /\ pc = "exited"
    /\ threads >= 2
    /\ \E a, b \in 1..Len(received) :
          received[a].data.isStr /\ ~received[b].data.isStr

\* C23: when the interaction file of the aggregation tool holds fewer than
\* two samples, no worker is ever started and the output file is never
\* created, and once main has gone on the error has been logged and the
\* program has ended with exit status 1.
C23_FewerThanTwoMatrices ==
    (tool = "aggregate" /\ Len(keys_interactionFile) < 2) =>
        /\ Started = {}
        /\ store = "absent"
        /\ main_result.isNone
        /\ pc \in {"main", "crashed"}
        /\ pc = "crashed" =>
              /\ exit_status = 1
              /\ logged = Some(OnlyOnePresent)
              /\ DOMAIN worker = {}

\* Reached: the aggregation tool has ended on an interaction file of one
\* sample, with three threads requested.
C23_Witness ==
    /\ tool = "aggregate"
    /\ Len(keys_interactionFile) = 1
    /\ requested = 3
    /\ pc = "crashed"

\* The workers that have not put their message yet.
NotReported == {w \in DOMAIN worker : worker[w] \in {"unstarted", "running"}}

\* C24: every worker putting its message in the end, once call_multi_core
\* starts its workers the polling loop ends in the end, with every worker
\* marked done; and the loop is never over, nor a worker marked done, while
\* that worker has not put its message: there is no timeout.
C24_PollingTerminates ==
    /\ (pc = "spawn") ~>
            (pc = "collected" /\ \A w \in DOMAIN thread_done : thread_done[w])
    /\ [](/\ NotReported # {} => ~LoopOver
          /\ \A w \in NotReported : ~thread_done[w])

\* Reached: the loop has ended after a pass in which the parent found the
\* queue of a started worker empty and one in which it read two queues.
C24_Witness ==
    /\ tool = "aggregate"
    /\ pc = "collected"
    /\ threads >= 2
    /\ \E a, b \in 1..Len(received) : a < b /\ received[a].w > received[b].w

\* C26: in the differential test and in the export, with fewer work items
\* than requested workers the number of workers is the number of items, and
\* no worker is ever started with an empty chunk.
C26_NoIdleWorkers ==
    (tool \in {"differential", "export"} /\ pc # "main") =>
        /\ Len(WorkList) < requested =>
              /\ threads = Len(WorkList)
              /\ DOMAIN worker = IndexSet(Len(WorkList))
        /\ \A w \in Started : Len(Chunk(w)) >= 1

\* C27: when the dispatch of the differential test has handed its three
\* lists to main, each of them has one entry per item of aggregatedList and
\* entry i is what the worker made of aggregatedList[i], also when the
\* aggregated data of some items is empty.
C27_ResultsAligned ==
    (tool = "differential" /\ Returned) =>
        LET N == Len(aggregatedList)
            lists == main_result.val
        IN  /\ \A c \in 1..3 : Len(lists[c]) = N
            /\ \A i \in 1..N :
                  aggregatedList[i] \notin emptyItems =>
                      /\ lists[1][i] = AcceptedOf(aggregatedList[i])
                      /\ lists[2][i] = RejectedOf(aggregatedList[i])
                      /\ lists[3][i] = AllOf(aggregatedList[i])

\* C28: in the aggregation tool, with more than one target and as many
\* targets as work items, the work item at local index j of a worker is the
\* item at some global index g of the work list, the target at local index
\* j of that worker is the target at the same g, and the score the worker
\* reports for the item is the one of the item against that target.
C28_TargetsAligned ==
    (/\ tool = "aggregate"
     /\ Len(pTargetFileList) > 1
     /\ Len(pTargetFileList) = Len(pInteractionFilesList)) =>
        \A w \in Started :
            /\ ~kwargs[w].pOneTarget
            /\ Len(kwargs[w].pTargetList) = Len(Chunk(w))
            /\ \A j \in 1..Len(Chunk(w)) :
                  LET g == w * interactionFilesPerThread + j IN
                  /\ Chunk(w)[j] = pInteractionFilesList[g]
                  /\ kwargs[w].pTargetList[j] = pTargetFileList[g]
                  /\ \A m \in MessagesOf(w) :
                        ~m.isStr =>
                            m.payload[2][j] =
                                Score(pInteractionFilesList[g],
                                      pTargetFileList[g])

\* Reached: with three work items and three targets the parent has read
\* the payload of a worker other than the first.
C28_Witness ==
    /\ tool = "aggregate"
    /\ Len(pTargetFileList) = 3
    /\ Len(pInteractionFilesList) = 3
    /\ threads >= 2
    /\ \E k \in 1..Len(received) :
          received[k].w >= 1 /\ ~received[k].data.isStr


(***************************************************************************)
(* The interval aggregator: filter_scores_target_list.                     *)
(* A dict is its keys in insertion order and its values by key; a record   *)
(* is the list of its fields.                                              *)
(***************************************************************************)
Chromosomes == {"chr1", "chr2"}

\* The chromosome of the target regions.
TargetChromosome == "chr1"

EmptyDict == [keys |-> <<>>, val |-> <<>>]

\* Position in a list of the Python index i, negative from the end.
PyIndex(list, i) == IF i < 0 THEN Len(list) + i + 1 ELSE i + 1

\* The record read for key k lying on chromosome c from start to end, with
\* the ten columns of an interaction file: gene, sum of interactions,
\* relative position, relative interactions, p-value, x-fold and raw count
\* follow the position.  Gene and relative position tell the records apart;
\* the three trailing fields are such that a sum of them tells which records
\* were added and how often.
Rec(k, c, start, end) ==
    <<c, start, end, 100 + k, 7, 20 + k, 30 + k,
      2 ^ (k - 1), 10 ^ (k - 1), 1>>

\* Interval(begin, end, data) of the intervaltree package.
Interval(begin, end, data) == <<begin, end, data>>

\* intervalListToIntervalTree(regions)[0]: one tree per chromosome, the
\* data of an interval being its rank in the list.
IntervalListToIntervalTree(regions) ==
    [c \in {regions[i][1] : i \in 1..Len(regions)} |->
        {Interval(regions[i][2], regions[i][3], i - 1) :
            i \in {j \in 1..Len(regions) : regions[j][1] = c}}]

\* Every interval overlaps a query that only touches it.
OverlapClosed(ivs, begin, end) ==
    {iv \in ivs : iv[1] <= end /\ iv[2] >= begin}

\* tree[begin:end]: the intervals of the tree that overlap [begin, end).
Overlap(ivs, begin, end) ==
    IF begin >= end THEN {}
    ELSE {iv \in ivs : iv[1] < end /\ iv[2] > begin}

\* The order of Interval objects: by begin, then end, then data.
IntervalLess(a, b) ==
    \/ a[1] < b[1]
    \/ a[1] = b[1] /\ a[2] < b[2]
    \/ a[1] = b[1] /\ a[2] = b[2] /\ a[3] < b[3]

\* The overlaps are taken from the other end of their order.
SortedLast(ivs) ==
    CHOOSE a \in ivs : \A b \in ivs : a = b \/ IntervalLess(b, a)

\* sorted(target_interval)[0]
SortedFirst(ivs) ==
    CHOOSE a \in ivs : \A b \in ivs : a = b \/ IntervalLess(a, b)

\* The key also joins every group opened before for another target.
AddKeyEverywhere(std, target, key) ==
    IF \E i \in 1..Len(std) : std[i].target = target
    THEN [i \in 1..Len(std) |-> [std[i] EXCEPT !.keys = Append(@, key)]]
    ELSE Append([i \in 1..Len(std) |-> [std[i] EXCEPT !.keys = Append(@, key)]],
                [target |-> target, keys |-> <<key>>])

\* Every key opens a group of its own, also for a target met before.
AddKeyNewGroup(std, target, key) ==
    Append(std, [target |-> target, keys |-> <<key>>])

\* same_target_dict[target].append(key), or same_target_dict[target] = [key]
AddKey(std, target, key) ==
    IF \E i \in 1..Len(std) : std[i].target = target
    THEN [i \in 1..Len(std) |->
            IF std[i].target = target
            THEN [std[i] EXCEPT !.keys = Append(@, key)]
            ELSE std[i]]
    ELSE Append(std, [target |-> target, keys |-> <<key>>])

\* The first loop from the i-th key on: every key whose record overlaps a
\* target joins the group of the first of the overlapping targets.
RECURSIVE AssignFrom(_, _, _, _)
AssignFrom(scores, tree, i, std) ==
    IF i > Len(scores.keys) THEN std
    ELSE LET key == scores.keys[i]
             chromosome == scores.val[key][1]
             start == scores.val[key][2]
             end == scores.val[key][3]
             found == IF chromosome \in DOMAIN tree
                      THEN Overlap(tree[chromosome], start, end)
                      ELSE {}
         IN  AssignFrom(scores, tree, i + 1,
                        IF found # {}
                        THEN AddKey(std, SortedFirst(found), key)
                        ELSE std)

\* The keys of a group are left in the order they were met.
SortedKeysUnsorted(keys) == keys

\* sorted(same_target_dict[target])
SortedKeys(keys) == SortSeq(keys, LAMBDA a, b : a < b)

\* The sum leaves out the first key of the group.
RECURSIVE SumValuesSkipFirst(_, _, _)
SumValuesSkipFirst(scores, keys, i) ==
    IF i <= 1 THEN <<0, 0, 0>>
    ELSE LET v == SumValuesSkipFirst(scores, keys, i - 1)
             r == scores.val[keys[i]]
         IN  <<v[1] + r[PyIndex(r, -3)], v[2] + r[PyIndex(r, -2)],
               v[3] + r[PyIndex(r, -1)]>>

\* values after the inner loop over the first i keys of the group.
RECURSIVE SumValues(_, _, _)
SumValues(scores, keys, i) ==
    IF i = 0 THEN <<0, 0, 0>>
    ELSE LET v == SumValues(scores, keys, i - 1)
             r == scores.val[keys[i]]
         IN  <<v[1] + r[PyIndex(r, -3)], v[2] + r[PyIndex(r, -2)],
               v[3] + r[PyIndex(r, -1)]>>

\* scores[key][i] = x: the record is changed in place.
SetField(scores, key, i, x) ==
    [scores EXCEPT !.val[key][PyIndex(scores.val[key], i)] = x]

\* The group is merged in the order its keys were met.
MergeTargetUnsorted(scores, groupKeys) ==
    LET keys == groupKeys
        values == SumValues(scores, keys, Len(keys))
        first == keys[1]
        last == keys[Len(keys)]
        s1 == SetField(scores, first, 2, scores.val[last][PyIndex(scores.val[last], 2)])
        s2 == SetField(s1, first, -5, s1.val[last][PyIndex(s1.val[last], -5)])
        s3 == SetField(s2, first, -3, values[1])
        s4 == SetField(s3, first, -2, values[2])
    IN  SetField(s4, first, -1, values[3])

\* One iteration of the second loop: the dict of records after the record of
\* the first key of the group has been turned into the merged line.
MergeTarget(scores, groupKeys) ==
    LET keys == SortedKeys(groupKeys)
        values == SumValues(scores, keys, Len(keys))
        first == keys[1]
        last == keys[Len(keys)]
        s1 == SetField(scores, first, 2, scores.val[last][PyIndex(scores.val[last], 2)])
        s2 == SetField(s1, first, -5, s1.val[last][PyIndex(s1.val[last], -5)])
        s3 == SetField(s2, first, -3, values[1])
        s4 == SetField(s3, first, -2, values[2])
    IN  SetField(s4, first, -1, values[3])

\* accepted_scores[key] = ...: a new key goes to the end.
DictKeysWith(keys, key) ==
    IF \E i \in 1..Len(keys) : keys[i] = key THEN keys ELSE Append(keys, key)

\* The second loop from the i-th target on: the records and the keys of
\* accepted_scores when it ends.
RECURSIVE MergeFrom(_, _, _, _)
MergeFrom(std, i, scores, accKeys) ==
    IF i > Len(std) THEN [scores |-> scores, keys |-> accKeys]
    ELSE MergeFrom(std, i + 1, MergeTarget(scores, std[i].keys),
                   DictKeysWith(accKeys, SortedKeys(std[i].keys)[1]))

\* The dispatcher when no dispatch is modelled.
DispIdle ==
    /\ tool = "aggregate"
    /\ requested = 1
    /\ keys_interactionFile = <<>>
    /\ threads = 1
    /\ pInteractionFilesList = <<>>
    /\ pTargetFileList = <<>>
    /\ aggregatedList = <<>>
    /\ emptyItems = {}
    /\ fileList = <<>>
    /\ interactionFileList = <<>>
    /\ pc = "idle"
    /\ loop_i = 0
    /\ interactionFilesPerThread = 0
    /\ kwargs = EmptyFun
    /\ queue = EmptyFun
    /\ process = EmptyFun
    /\ worker = EmptyFun
    /\ thread_done = EmptyFun
    /\ all_data_collected = FALSE
    /\ fail_flag = FALSE
    /\ fail_message = <<>>
    /\ outfile_names_list = EmptyFun
    /\ accepted_scores_list = EmptyFun
    /\ accepted_data = EmptyFun
    /\ rejected_data = EmptyFun
    /\ all_data = EmptyFun
    /\ stringIO_data = EmptyFun
    /\ file_name_list = EmptyFun
    /\ images_array = EmptyFun
    /\ main_result = NoneVal
    /\ logged = NoneVal
    /\ exit_status = -1
    /\ store = "absent"
    /\ received = <<>>

\* The positions a record or a target region may span.
Spans == {iv \in (0..MaxPos) \X (0..MaxPos) : iv[1] < iv[2]}

SpanLess(a, b) == a[1] < b[1] \/ (a[1] = b[1] /\ a[2] < b[2])

\* The regions of a set of spans on chromosome c, in the order of a sorted
\* region file.
RECURSIVE RegionList(_, _)
RegionList(c, spans) ==
    IF spans = {} THEN <<>>
    ELSE LET least == CHOOSE a \in spans :
                        \A b \in spans : a = b \/ SpanLess(a, b)
         IN  <<<<c, least[1], least[2]>>>> \o RegionList(c, spans \ {least})

\* Where a record may lie: anywhere on the chromosome of the targets, or on
\* the other chromosome, where its span makes no difference.
Places ==
    {<<TargetChromosome, iv[1], iv[2]>> : iv \in Spans}
        \cup {<<c, 0, MaxPos>> : c \in Chromosomes \ {TargetChromosome}}

\* The permutations of 1..n: the orders in which n keys can be inserted.
Orders(n) == {o \in [1..n -> 1..n] : \A a, b \in 1..n : o[a] = o[b] => a = b}

\* A call of filter_scores_target_list: the records of an interaction file
\* under keys 1..n inserted in any order, and the targets given as the
\* regions of one chromosome, as a prebuilt index of them, or not at all.
InitAgg ==
    /\ DispIdle
    /\ TestIdle
    /\ HdfIdle
    /\ aggPc = "call"
    /\ \E n \in 0..MaxRecords :
        \E order \in Orders(n) :
        \E place \in [1..n -> Places] :
            pScoresDictionary =
                [keys |-> order,
                 val |-> [k \in 1..n |->
                            Rec(k, place[k][1], place[k][2], place[k][3])]]
    /\ inputScores = pScoresDictionary
    /\ \/ /\ pTargetList = NoneVal
          /\ pTargetIntervalTree = NoneVal
       \/ \E spans \in {S \in SUBSET Spans : Cardinality(S) <= MaxRegions} :
             \/ /\ pTargetList = Some(RegionList(TargetChromosome, spans))
                /\ pTargetIntervalTree = NoneVal
             \/ /\ pTargetList = NoneVal
                /\ pTargetIntervalTree =
                      Some(IntervalListToIntervalTree(
                              RegionList(TargetChromosome, spans)))
    /\ target_regions_intervaltree = NoneVal
    /\ same_target_dict = <<>>
    /\ accepted_scores = NoneVal
    /\ aggError = NoneVal

\* The index is not looked at: a call without a target list raises.
NoTargetGivenWithoutList(targetList, tree) == targetList.isNone

\* Lines 110, 131, 133: the else branch, taken when neither a target list
\* nor an interval index is given.
NoTargetGiven(targetList, tree) == targetList.isNone /\ tree.isNone

\* The whole call.  Lines 107-135: the interval index is built from the
\* target regions, or taken as given; without either the call raises, and
\* with an empty region list it returns the empty dict.  Lines 136-150: the
\* loop over the records.  Lines 152-168: the loop over the targets and the
\* return; the values of accepted_scores are the very records of
\* pScoresDictionary.
FilterScoresTargetList ==
    /\ aggPc = "call"
    /\ IF NoTargetGiven(pTargetList, pTargetIntervalTree)
       THEN /\ aggPc' = "raised"
            /\ aggError' = Some("No target list given.")
            /\ UNCHANGED <<target_regions_intervaltree, same_target_dict,
                           pScoresDictionary, accepted_scores>>
       ELSE IF ~pTargetList.isNone /\ Len(pTargetList.val) = 0
       THEN /\ aggPc' = "returned"
            /\ accepted_scores' = Some(EmptyDict)
            /\ UNCHANGED <<target_regions_intervaltree, same_target_dict,
                           pScoresDictionary, aggError>>
       ELSE LET tree == IF ~pTargetList.isNone
                        THEN IntervalListToIntervalTree(pTargetList.val)
                        ELSE pTargetIntervalTree.val
                std == AssignFrom(pScoresDictionary, tree, 1, <<>>)
                end == MergeFrom(std, 1, pScoresDictionary, <<>>)
            IN  /\ target_regions_intervaltree' = Some(tree)
                /\ same_target_dict' =
                      [i \in 1..Len(std) |->
                          [std[i] EXCEPT !.keys = SortedKeys(@)]]
                /\ pScoresDictionary' = end.scores
                /\ accepted_scores' =
                      Some([keys |-> end.keys,
                            val |-> [k \in {end.keys[i] : i \in 1..Len(end.keys)} |->
                                        end.scores.val[k]]])
                /\ aggPc' = "returned"
                /\ UNCHANGED aggError
    /\ UNCHANGED <<dispVars, testVars, hdfVars, inputScores, pTargetList,
                   pTargetIntervalTree>>

NextAgg == FilterScoresTargetList

SpecAgg == InitAgg /\ [][NextAgg]_vars

(***************************************************************************)
(* Properties of the interval aggregator.                                  *)
(***************************************************************************)
\* The call returned through its last line.
AggReturned == aggPc = "returned"

\* The interval index the records were looked up in.
Index ==
    IF target_regions_intervaltree.isNone THEN <<>>
    ELSE target_regions_intervaltree.val

InputKeys == {inputScores.keys[i] : i \in 1..Len(inputScores.keys)}

\* The record of key k as it was given to the call.
InRec(k) == inputScores.val[k]

\* The targets of the record's chromosome that share a position with
\* [start, end) of the record.
Overlapping(k) ==
    IF InRec(k)[1] \in DOMAIN Index
    THEN {t \in Index[InRec(k)[1]] : t[1] < InRec(k)[3] /\ InRec(k)[2] < t[2]}
    ELSE {}

Dropped(k) == Overlapping(k) = {}

Kept == {k \in InputKeys : ~Dropped(k)}

\* The least overlapping target, by start, then end.
AssignedTarget(k) ==
    CHOOSE t \in Overlapping(k) :
        \A u \in Overlapping(k) :
            t[1] < u[1] \/ (t[1] = u[1] /\ t[2] <= u[2])

HitTargets == {AssignedTarget(k) : k \in Kept}

Group(t) == {k \in Kept : AssignedTarget(k) = t}

MinKey(g) == CHOOSE k \in g : \A h \in g : k <= h

MaxKey(g) == CHOOSE k \in g : \A h \in g : h <= k

\* The sum over the records of g, as given, of the field at Python index f.
RECURSIVE InputSum(_, _)
InputSum(g, f) ==
    IF g = {} THEN 0
    ELSE LET k == CHOOSE h \in g : TRUE
         IN  InRec(k)[PyIndex(InRec(k), f)] + InputSum(g \ {k}, f)

\* The returned dict.
Out == accepted_scores.val

OutKeys == {Out.keys[i] : i \in 1..Len(Out.keys)}

OutField(k, f) == Out.val[k][PyIndex(Out.val[k], f)]

\* C8: for every target that has records assigned, each of the three trailing
\* fields of the record emitted for it is the sum of that field, as given to
\* the call, over exactly the records assigned to that target.
C8_Conservation ==
    AggReturned =>
        \A t \in HitTargets :
            /\ MinKey(Group(t)) \in OutKeys
            /\ \A f \in {-3, -2, -1} :
                  OutField(MinKey(Group(t)), f) = InputSum(Group(t), f)

\* Reached: a target received two records inserted in descending key order.
C8_Witness ==
    /\ AggReturned
    /\ Len(inputScores.keys) = 2
    /\ inputScores.keys[1] > inputScores.keys[2]
    /\ \E t \in HitTargets : Cardinality(Group(t)) = 2

\* C9: a record on a chromosome the index lacks, or overlapping no target of
\* its chromosome, is not an output key, and every output record is made of
\* kept records only: its sums are the sums over a set of kept records and
\* its boundary fields are those of two records of that set.
C9_DropRule ==
    AggReturned =>
        /\ OutKeys \subseteq Kept
        /\ \A o \in OutKeys :
              \E g \in SUBSET Kept :
                  /\ \A f \in {-3, -2, -1} : OutField(o, f) = InputSum(g, f)
                  /\ \E a, b \in g :
                        /\ \A f \in {0, 1, 3} : OutField(o, f) = InRec(a)[PyIndex(InRec(a), f)]
                        /\ \A f \in {2, -5} : OutField(o, f) = InRec(b)[PyIndex(InRec(b), f)]

\* Reached: of two records on the chromosome of the targets one overlaps a
\* target and the other only touches one.
C9_Witness ==
    /\ AggReturned
    /\ \E k \in InputKeys :
          /\ Dropped(k)
          /\ InRec(k)[1] \in DOMAIN Index
          /\ \E t \in Index[InRec(k)[1]] : t[1] = InRec(k)[3]
    /\ OutKeys # {}

\* C10: every target with assigned records has exactly one output record:
\* it is keyed by the smallest key of the group, its chromosome, start and
\* label are those of that key's record and its end is the end of the record
\* of the largest key of the group.
C10_RecordShape ==
    AggReturned =>
        /\ Cardinality(OutKeys) = Cardinality(HitTargets)
        /\ Len(Out.keys) = Cardinality(OutKeys)
        /\ \A t \in HitTargets :
              LET first == MinKey(Group(t))
                  last == MaxKey(Group(t))
              IN  /\ OutKeys \cap Group(t) = {first}
                  /\ OutField(first, 0) = InRec(first)[1]
                  /\ OutField(first, 1) = InRec(first)[2]
                  /\ OutField(first, 3) = InRec(first)[4]
                  /\ OutField(first, 2) = InRec(last)[3]

\* Reached: the example, with positions 0, 1, 2 for 100, 150, 200: records
\* 1 = (chr1, 0, 1) and 2 = (chr1, 1, 2), inserted 2 first, on the target
\* (chr1, 0, 2) give one record keyed 1 from 0 to 2 with the summed fields.
C10_Witness ==
    /\ AggReturned
    /\ inputScores.keys = <<2, 1>>
    /\ InRec(1) = Rec(1, "chr1", 0, 1)
    /\ InRec(2) = Rec(2, "chr1", 1, 2)
    /\ Index = [c \in {"chr1"} |-> {Interval(0, 2, 0)}]
    /\ Out.keys = <<1>>
    /\ OutField(1, 1) = 0
    /\ OutField(1, 2) = 2
    /\ <<OutField(1, -3), OutField(1, -2), OutField(1, -1)>> = <<3, 11, 2>>

\* The targets of the interval index.
AllTargets == UNION {Index[c] : c \in DOMAIN Index}

\* C11: the call returns as many records as there are targets with at least
\* one record assigned, every returned record is the record of a target that
\* has records assigned, and the returned dict is empty when no record
\* overlaps a target and when the list of target regions is empty.
C11_NoRecordForUnhitTarget ==
    AggReturned =>
        /\ Len(Out.keys) = Cardinality(HitTargets)
        /\ \A k \in OutKeys : \E t \in HitTargets : k = MinKey(Group(t))
        /\ \A t \in AllTargets \ HitTargets :
              \A k \in OutKeys : k \notin Kept \/ AssignedTarget(k) # t
        /\ (Kept = {} => Out = EmptyDict)
        /\ (~pTargetList.isNone /\ pTargetList.val = <<>> => Out = EmptyDict)

\* Reached: of two targets one receives the two records given and the other
\* none, and one record is returned.
C11_Witness ==
    /\ AggReturned
    /\ Cardinality(AllTargets) = 2
    /\ Cardinality(HitTargets) = 1
    /\ Cardinality(Kept) = 2
    /\ Len(Out.keys) = 1

\* C12: the call raises exactly when neither a target list nor an interval
\* index was given; it then has logged and raised 'No target list given.',
\* has returned no dict, has grouped no record and has changed none.
C12_NoTargetListError ==
    aggPc # "call" =>
        /\ aggPc = "raised" <=> (pTargetList.isNone /\ pTargetIntervalTree.isNone)
        /\ aggPc = "raised" =>
              /\ aggError = Some("No target list given.")
              /\ accepted_scores.isNone
              /\ target_regions_intervaltree.isNone
              /\ same_target_dict = <<>>
              /\ pScoresDictionary = inputScores
        /\ aggPc = "returned" => aggError.isNone /\ ~accepted_scores.isNone

\* Reached: a call with records but without targets has raised.
C12_Witness ==
    /\ aggPc = "raised"
    /\ Len(inputScores.keys) = MaxRecords
    /\ aggError = Some("No target list given.")

\* C13: after the call has returned, the dict given to it holds the keys and
\* the records it held when the call began.
C13_NoSideEffects ==
    AggReturned => pScoresDictionary = inputScores

\* The mapping the call returns for the records in scores and the index it
\* looked them up in.
RunOn(scores) ==
    LET std == AssignFrom(scores, Index, 1, <<>>)
        end == MergeFrom(std, 1, scores, <<>>)
    IN  [k \in {end.keys[i] : i \in 1..Len(end.keys)} |-> end.scores.val[k]]

\* The records given to the call, inserted in the order o of their keys.
Reordered(o) ==
    [keys |-> [i \in 1..Len(inputScores.keys) |-> inputScores.keys[o[i]]],
     val |-> inputScores.val]

\* C14: whatever the order in which the records given to the call are
\* inserted into the dict, the call returns the mapping it has returned: the
\* same keys, and for each key the same record.
C14_Determinism ==
    AggReturned /\ ~target_regions_intervaltree.isNone =>
        \A o \in Orders(Len(inputScores.keys)) :
            /\ DOMAIN RunOn(Reordered(o)) = OutKeys
            /\ \A k \in OutKeys : RunOn(Reordered(o))[k] = Out.val[k]

\* Reached: two records that end at different positions are assigned to one
\* target and were inserted in descending key order; the returned record is
\* keyed by the smaller key and ends where the record of the larger key ends.
C14_Witness ==
    /\ AggReturned
    /\ inputScores.keys = <<2, 1>>
    /\ \E t \in HitTargets : Group(t) = {1, 2}
    /\ InRec(1)[3] # InRec(2)[3]
    /\ OutKeys = {1}
    /\ OutField(1, 2) = InRec(2)[3]

\* The groups of same_target_dict that hold key k.
GroupsOf(k) ==
    {i \in 1..Len(same_target_dict) :
        \E j \in 1..Len(same_target_dict[i].keys) :
            same_target_dict[i].keys[j] = k}

\* C25: a record that overlaps targets is in the group of exactly one
\* target, which is one it overlaps and the least of them by start, then
\* end, whichever way the set of overlaps is listed; a record that overlaps
\* none is in no group.
C25_TargetTieBreak ==
    AggReturned =>
        \A k \in InputKeys :
            IF Overlapping(k) = {}
            THEN GroupsOf(k) = {}
            ELSE /\ Cardinality(GroupsOf(k)) = 1
                 /\ \A i \in GroupsOf(k) :
                       LET t == same_target_dict[i].target IN
                       /\ t \in Overlapping(k)
                       /\ \A u \in Overlapping(k) :
                             t[1] < u[1] \/ (t[1] = u[1] /\ t[2] <= u[2])

\* Reached: a record overlaps two targets and another record is assigned to
\* the greater of the two.
C25_Witness ==
    /\ AggReturned
    /\ \E k, h \in Kept :
          /\ Cardinality(Overlapping(k)) = 2
          /\ Overlapping(h) = Overlapping(k) \ {AssignedTarget(k)}
          /\ Len(same_target_dict) = 2

\* How often key k stands in the groups of same_target_dict.
Occurrences(k) ==
    Cardinality({p \in (1..Len(same_target_dict)) \X (1..MaxRecords + 1) :
                    /\ p[2] <= Len(same_target_dict[p[1]].keys)
                    /\ same_target_dict[p[1]].keys[p[2]] = k})

\* How often the record of key k was added into the sums of the output
\* record o: the field at -2 of the record of k is 10 ^ (k - 1).
TimesAdded(o, k) == (OutField(o, -2) \div (10 ^ (k - 1))) % 10

RECURSIVE TimesAddedIn(_, _)
TimesAddedIn(keys, k) ==
    IF keys = {} THEN 0
    ELSE LET o == CHOOSE h \in keys : TRUE
         IN  TimesAdded(o, k) + TimesAddedIn(keys \ {o}, k)

\* C29: every key is in the group of at most one target and stands there
\* once, so the groups are pairwise disjoint; the values of every record
\* are added into the sums of at most one returned record, and at most
\* once; and every key of the returned dict is a key of the dict given.
C29_NoDoubleCounting ==
    AggReturned =>
        /\ \A k \in InputKeys : Occurrences(k) <= 1
        /\ \A i, j \in 1..Len(same_target_dict) :
              i # j =>
                  \A a \in 1..Len(same_target_dict[i].keys) :
                  \A b \in 1..Len(same_target_dict[j].keys) :
                      same_target_dict[i].keys[a] # same_target_dict[j].keys[b]
        /\ \A k \in InputKeys : TimesAddedIn(OutKeys, k) <= 1
        /\ \A k \in Kept : TimesAddedIn(OutKeys, k) = 1
        /\ OutKeys \subseteq InputKeys

\* Reached: two records are returned, one of them for a record that
\* overlaps both targets.
C29_Witness ==
    /\ AggReturned
    /\ Cardinality(OutKeys) = 2
    /\ \E k \in OutKeys : Cardinality(Overlapping(k)) = 2
    /\ \A k \in OutKeys : TimesAddedIn(OutKeys, k) = 1

\* C30: every record given having start <= end, every returned record has
\* start <= end and reaches from no later than the start to no earlier than
\* the end of every record merged into it, wherever the keys of the records
\* lie on the chromosome.
C30_MergedIntervalWellFormed ==
    (AggReturned /\ \A k \in InputKeys : InRec(k)[2] <= InRec(k)[3]) =>
        \A t \in HitTargets :
            LET o == MinKey(Group(t)) IN
            /\ o \in OutKeys
            /\ OutField(o, 1) <= OutField(o, 2)
            /\ \A k \in Group(t) :
                  /\ OutField(o, 1) <= InRec(k)[2]
                  /\ InRec(k)[3] <= OutField(o, 2)

(***************************************************************************)
(* The statistical tests: chisquare_test and fisher_exact_test.            *)
(* A float of the data is a number of halves: h stands for h / 2.  A       *)
(* fraction is a pair <<numerator, denominator>> with a positive           *)
(* denominator.  A p-value is NaN, a fraction, or the upper tail of the    *)
(* chi-squared distribution at a fraction.                                 *)
(***************************************************************************)
MaxPairs == 2

NaN == <<"nan", 0, 0>>

Fraction(num, den) == <<"q", num, den>>

\* 1.0
One == Fraction(1, 1)

\* The p-value chi2_contingency gives for the statistic num / den.
Chi2Sf(num, den) == <<"sf", num, den>>

\* The levels of significance of the model.
Alphas == {<<1, 3>>, <<3, 19>>}

\* stats.chi2.ppf(q=1 - pAlpha, df=1), to the precision of a fraction.
Chi2Ppf(alpha) == IF alpha = <<1, 3>> THEN <<15, 16>> ELSE <<2, 1>>

\* The sums of interactions and the raw target values of the data, in halves.
SumFloats == {0, 2}

RawFloats == {-2, 0, 2, 3}

\* [group1, group2] of index i: the 2 x 2 table, in halves.
Table(data1, data2, i) ==
    <<data1[i][1], data1[i][2], data2[i][1], data2[i][2]>>

\* np.ceil, from halves to whole numbers.
Ceil(h) == (h + 1) \div 2

CeilTable(t) == <<Ceil(t[1]), Ceil(t[2]), Ceil(t[3]), Ceil(t[4])>>

Negative(t) == \E k \in 1..4 : t[k] < 0

AllZero(t) == \A k \in 1..4 : t[k] = 0

\* A row or a column of the table sums to zero.
ZeroMargin(t) ==
    \/ t[1] + t[2] = 0
    \/ t[3] + t[4] = 0
    \/ t[1] + t[3] = 0
    \/ t[2] + t[4] = 0

\* chi2_contingency raises ValueError: a negative value, or a zero among the
\* expected frequencies.  On a table of zeros the expected frequencies are
\* 0 / 0, which some builds of the library take for a zero and others not.
Chi2Raises(t, onEmpty) ==
    \/ Negative(t)
    \/ ~AllZero(t) /\ ZeroMargin(t)
    \/ AllZero(t) /\ onEmpty

\* The statistic of Pearson's test without correction on a table of halves,
\* as a fraction: n (ad - bc)^2 / (r1 r2 c1 c2).
Chi2Statistic(t) ==
    LET d == t[1] * t[4] - t[2] * t[3]
    IN  <<(t[1] + t[2] + t[3] + t[4]) * d * d,
          2 * (t[1] + t[2]) * (t[3] + t[4]) * (t[1] + t[3]) * (t[2] + t[4])>>

\* The test rejects only above the critical value.
Chi2AtLeastStrict(chi2, critical) ==
    chi2[1] * critical[2] > critical[1] * chi2[2]

\* chi2 >= critical_value
Chi2AtLeast(chi2, critical) ==
    chi2[1] * critical[2] >= critical[1] * chi2[2]

\* The untestable index is recorded in test_result only.
ExceptValueErrorSkips(st, i) ==
    [st EXCEPT !.test_result = Append(@, NaN),
               !.zero_values_counter = @ + 1]

\* The except clause of both tests (chisquare_test also counts).
ExceptValueError(st, i) ==
    [st EXCEPT !.test_result = Append(@, NaN),
               !.accepted = Append(@, <<i, One>>),
               !.zero_values_counter = @ + 1]

\* The rejected index is also listed as accepted.
ClassifyBoth(st, i, p_value, reject) ==
    IF reject
    THEN [st EXCEPT !.test_result = Append(@, p_value),
                    !.rejected = Append(@, <<i, p_value>>),
                    !.accepted = Append(@, <<i, p_value>>)]
    ELSE [st EXCEPT !.test_result = Append(@, p_value),
                    !.accepted = Append(@, <<i, p_value>>)]

\* The if and else branches of both tests.
Classify(st, i, p_value, reject) ==
    IF reject
    THEN [st EXCEPT !.test_result = Append(@, p_value),
                    !.rejected = Append(@, <<i, p_value>>)]
    ELSE [st EXCEPT !.test_result = Append(@, p_value),
                    !.accepted = Append(@, <<i, p_value>>)]

NoResults ==
    [test_result |-> <<>>, accepted |-> <<>>, rejected |-> <<>>,
     zero_values_counter |-> 0]

\* The loop of chisquare_test over the first n pairs (i from 0 to n - 1).
RECURSIVE ChisquareLoop(_, _, _, _, _)
ChisquareLoop(data1, data2, critical, onEmpty, n) ==
    IF n = 0 THEN NoResults
    ELSE LET st == ChisquareLoop(data1, data2, critical, onEmpty, n - 1)
             t == Table(data1, data2, n)
             chi2 == Chi2Statistic(t)
         IN  IF Chi2Raises(t, onEmpty) THEN ExceptValueError(st, n - 1)
             ELSE IF AllZero(t) THEN Classify(st, n - 1, NaN, FALSE)
             ELSE Classify(st, n - 1, Chi2Sf(chi2[1], chi2[2]),
                           Chi2AtLeast(chi2, critical))

\* The binomial coefficient.
RECURSIVE Binomial(_, _)
Binomial(n, k) ==
    IF k < 0 \/ k > n THEN 0
    ELSE IF k = 0 THEN 1
    ELSE Binomial(n - 1, k - 1) + Binomial(n - 1, k)

\* The number of tables with the margins of t whose first cell is x.
Weight(t, x) ==
    Binomial(t[1] + t[2], x) * Binomial(t[3] + t[4], t[1] + t[3] - x)

RECURSIVE SumWeights(_, _)
SumWeights(t, xs) ==
    IF xs = {} THEN 0
    ELSE LET x == CHOOSE y \in xs : TRUE
         IN  Weight(t, x) + SumWeights(t, xs \ {x})

\* The two-sided p-value of stats.fisher_exact on a table of counts: 1.0
\* when a row or a column is empty, else the share of the tables with the
\* same margins that are no more probable than the observed one.
FisherPValue(t) ==
    IF ZeroMargin(t) THEN <<1, 1>>
    ELSE LET xs == 0..(t[1] + t[2])
         IN  <<SumWeights(t, {x \in xs : Weight(t, x) <= Weight(t, t[1])}),
               SumWeights(t, xs)>>

\* p_value <= pAlpha
AtMost(p, alpha) == p[1] * alpha[2] <= alpha[1] * p[2]

\* The loop of fisher_exact_test over the first n pairs.
RECURSIVE FisherLoop(_, _, _, _)
FisherLoop(data1, data2, alpha, n) ==
    IF n = 0 THEN NoResults
    ELSE LET st == FisherLoop(data1, data2, alpha, n - 1)
             t == CeilTable(Table(data1, data2, n))
             p == FisherPValue(t)
         IN  IF Negative(t)
             THEN [ExceptValueError(st, n - 1) EXCEPT !.zero_values_counter = 0]
             ELSE Classify(st, n - 1, Fraction(p[1], p[2]), AtMost(p, alpha))

\* The pairs of one file: the sum of interactions is that of the file.
DataFiles(n) ==
    {[i \in 1..n |-> <<sum, raw[i]>>] :
        sum \in SumFloats, raw \in [1..n -> RawFloats]}

\* A call of one of the tests on two aligned files.
InitTest ==
    /\ DispIdle
    /\ AggIdle
    /\ HdfIdle
    /\ testPc = "call"
    /\ statisticTest \in {"chi2", "fisher"}
    /\ emptyTableRaises \in BOOLEAN
    /\ statisticTest = "fisher" => emptyTableRaises = FALSE
    /\ \E n \in 0..MaxPairs :
          /\ pDataFile1 \in DataFiles(n)
          /\ pDataFile2 \in DataFiles(n)
    /\ pAlpha \in Alphas
    /\ test_result = <<>>
    /\ accepted = <<>>
    /\ rejected = <<>>
    /\ zero_values_counter = 0

\* Lines 368-370 and 119-148.
ChisquareTest ==
    /\ testPc = "call"
    /\ statisticTest = "chi2"
    /\ LET st == ChisquareLoop(pDataFile1, pDataFile2, Chi2Ppf(pAlpha),
                               emptyTableRaises, Len(pDataFile1))
       IN  /\ test_result' = st.test_result
           /\ accepted' = st.accepted
           /\ rejected' = st.rejected
           /\ zero_values_counter' = st.zero_values_counter
    /\ testPc' = "returned"
    /\ UNCHANGED <<dispVars, aggVars, hdfVars, statisticTest,
                   emptyTableRaises, pDataFile1, pDataFile2, pAlpha>>

\* Lines 371-373 and 151-168.
FisherExactTest ==
    /\ testPc = "call"
    /\ statisticTest = "fisher"
    /\ LET st == FisherLoop(pDataFile1, pDataFile2, pAlpha, Len(pDataFile1))
       IN  /\ test_result' = st.test_result
           /\ accepted' = st.accepted
           /\ rejected' = st.rejected
           /\ zero_values_counter' = st.zero_values_counter
    /\ testPc' = "returned"
    /\ UNCHANGED <<dispVars, aggVars, hdfVars, statisticTest,
                   emptyTableRaises, pDataFile1, pDataFile2, pAlpha>>

NextTest == ChisquareTest \/ FisherExactTest

SpecTest == InitTest /\ [][NextTest]_vars

(***************************************************************************)
(* Properties of the statistical tests.                                    *)
(***************************************************************************)
TestReturned == testPc = "returned"

\* The indices of the pairs given to the test.
PairIndices == 0..(Len(pDataFile1) - 1)

\* How many entries of a list of [i, p_value] are about index i.
CountOf(list, i) == Cardinality({k \in 1..Len(list) : list[k][1] = i})

\* The table the test of index i is made on.
TableOf(i) ==
    IF statisticTest = "chi2"
    THEN Table(pDataFile1, pDataFile2, i + 1)
    ELSE CeilTable(Table(pDataFile1, pDataFile2, i + 1))

\* The underlying test raises a value error on index i.
Untestable(i) ==
    IF statisticTest = "chi2"
    THEN Chi2Raises(TableOf(i), emptyTableRaises)
    ELSE Negative(TableOf(i))

\* The underlying test of index i returns, and says to reject.
SaysReject(i) ==
    /\ ~Untestable(i)
    /\ IF statisticTest = "chi2"
       THEN /\ ~AllZero(TableOf(i))
            /\ Chi2Statistic(TableOf(i))[1] * Chi2Ppf(pAlpha)[2]
                  >= Chi2Ppf(pAlpha)[1] * Chi2Statistic(TableOf(i))[2]
       ELSE FisherPValue(TableOf(i))[1] * pAlpha[2]
                  <= pAlpha[1] * FisherPValue(TableOf(i))[2]

\* The statistic of index i equals the critical value, or its p-value alpha.
AtThreshold(i) ==
    /\ ~Untestable(i)
    /\ IF statisticTest = "chi2"
       THEN /\ ~AllZero(TableOf(i))
            /\ Chi2Statistic(TableOf(i))[1] * Chi2Ppf(pAlpha)[2]
                  = Chi2Ppf(pAlpha)[1] * Chi2Statistic(TableOf(i))[2]
       ELSE FisherPValue(TableOf(i))[1] * pAlpha[2]
                  = pAlpha[1] * FisherPValue(TableOf(i))[2]

\* C15: when either test has returned, test_result has one entry per pair
\* and every index is listed exactly once in accepted and rejected taken
\* together, an index the test could not be made on in accepted.
C15_ClassificationComplete ==
    TestReturned =>
        /\ Len(test_result) = Len(pDataFile1)
        /\ Len(accepted) + Len(rejected) = Len(test_result)
        /\ \A k \in 1..Len(accepted) : accepted[k][1] \in PairIndices
        /\ \A k \in 1..Len(rejected) : rejected[k][1] \in PairIndices
        /\ \A i \in PairIndices :
              /\ CountOf(accepted, i) + CountOf(rejected, i) = 1
              /\ Untestable(i) => CountOf(accepted, i) = 1

\* Reached: the exact test has rejected one pair and could not be made on
\* another.
C15_Witness ==
    /\ TestReturned
    /\ statisticTest = "fisher"
    /\ Len(pDataFile1) = MaxPairs
    /\ Len(rejected) > 0
    /\ \E i \in PairIndices : Untestable(i)

\* C16: an index is rejected exactly when its test could be made and the
\* statistic is at least the critical value (chi-squared) or the p-value is
\* at most alpha (exact test); every other index is accepted.
C16_ThresholdRejected ==
    TestReturned =>
        \A i \in PairIndices :
            /\ CountOf(rejected, i) > 0 <=> SaysReject(i)
            /\ CountOf(accepted, i) > 0 <=> ~SaysReject(i)

\* Reached: the chi-squared test has rejected a pair whose statistic equals
\* the critical value.
C16_Witness ==
    /\ TestReturned
    /\ statisticTest = "chi2"
    /\ \E i \in PairIndices : AtThreshold(i) /\ CountOf(rejected, i) = 1

\* C17: a test that has returned has an entry of test_result for every pair;
\* for an index whose test raised a value error test_result holds NaN,
\* accepted holds (i, 1.0) and nothing else about i, rejected holds nothing
\* about i; and every other index is still tested and listed with the
\* p-value test_result holds for it.
C17_UntestablePair ==
    /\ testPc \in {"idle", "call", "returned"}
    /\ TestReturned =>
          /\ Len(test_result) = Len(pDataFile1)
          /\ \A i \in PairIndices :
                IF Untestable(i)
                THEN /\ test_result[i + 1] = NaN
                     /\ \E k \in 1..Len(accepted) : accepted[k] = <<i, One>>
                     /\ CountOf(accepted, i) = 1
                     /\ CountOf(rejected, i) = 0
                ELSE /\ \E k \in 1..Len(accepted \o rejected) :
                           (accepted \o rejected)[k] = <<i, test_result[i + 1]>>
                     /\ test_result[i + 1] = NaN => AllZero(TableOf(i))

\* Reached: the chi-squared test could not be made on the first pair, which
\* has an empty row, and has rejected the second.
C17_Witness ==
    /\ TestReturned
    /\ statisticTest = "chi2"
    /\ Len(pDataFile1) = 2
    /\ Untestable(0) /\ ~Negative(TableOf(0)) /\ ~AllZero(TableOf(0))
    /\ test_result[1] = NaN
    /\ accepted = <<(<<0, One>>)>>
    /\ Len(rejected) = 1 /\ rejected[1][1] = 1

(***************************************************************************)
(* The writers of the output file: writeAggregateHDF and writeResultHDF.   *)
(* The file is the set of the paths of its groups, the datasets written    *)
(* into each group and the links; a path is the sequence of the names from *)
(* the root.                                                               *)
(***************************************************************************)
MaxWrites == 2

\* The genes of the work items: one gene each, as main lists them.
GeneNames == <<"g1", "g2", "g3", "g4">>

EmptyFile == [groups |-> {}, data |-> {}, links |-> {}]

\* name in group
Has(S, group, name) ==
    \/ Append(group, name) \in S.groups
    \/ \E l \in S.links : l.path = Append(group, name)

\* group.create_group(name), the name being free.
CreateGroup(S, group, name) ==
    [S EXCEPT !.groups = @ \cup {Append(group, name)}]

\* if name not in group: group.create_group(name), else: group[name]
EnsureGroup(S, group, name) ==
    IF Has(S, group, name) THEN S ELSE CreateGroup(S, group, name)

\* The datasets written into a group.
WriteDatasets(S, group, content) ==
    [S EXCEPT !.data = @ \cup {[path |-> group, content |-> content]}]

\* How a part of a writer ends: with the file as it is then, and with the
\* exception raised, if any.
Ok(S) == [store |-> S, error |-> NoneVal]

Raise(S, e) == [store |-> S, error |-> Some(e)]

\* Lines 212-232 and 249-255: what is written for the records of data.
AggregateContent(data) ==
    LET last == data[Len(data)]
    IN  [chromosome |-> last[1],
         start_list |-> [k \in 1..Len(data) |-> data[k][2]],
         end_list |-> [k \in 1..Len(data) |-> data[k][3]],
         gene_name |-> last[4],
         sum_of_interactions |-> last[5],
         relative_distance_list |-> [k \in 1..Len(data) |-> data[k][6]],
         raw_target_list |->
             [k \in 1..Len(data) |-> data[k][PyIndex(data[k], -1)]]]

\* A copy of the leaf put under the name, in place of a reference to it.
LinkGeneCopy(S, geneGroup, name, target) ==
    LET copy == Append(geneGroup, name) IN
    [S EXCEPT !.groups = @ \cup {copy},
              !.data = @ \cup {[path |-> copy, content |-> d.content] :
                                  d \in {e \in S.data : e.path = target}}]

\* Line 263: geneGroup[name] = target, a second name of the group target.
LinkGene(S, geneGroup, name, target) ==
    [S EXCEPT !.links = @ \cup {[path |-> Append(geneGroup, name),
                                 target |-> target]}]

\* Lines 207-263: one round of the inner loop, for the sample key = [sample,
\* chromosome, gene] and its records.  An existing chromosome group is
\* fetched under the chromosome of the records.
WriteSample(S, matrixCombinationGroup, key, data, fault) ==
    IF Len(data) = 0 THEN Ok(S)
    ELSE LET chromosome == data[Len(data)][1]
             matrixGroup == Append(matrixCombinationGroup, key[1])
             S1 == EnsureGroup(S, matrixCombinationGroup, key[1])
             isNew == ~Has(S1, matrixGroup, key[2])
             chromosomeObject ==
                 IF isNew THEN Append(matrixGroup, key[2])
                 ELSE Append(matrixGroup, chromosome)
             S2 == IF isNew THEN CreateGroup(S1, matrixGroup, key[2]) ELSE S1
             geneGroup == Append(matrixGroup, "genes")
             S3 == EnsureGroup(S2, matrixGroup, "genes")
             groupObject == Append(chromosomeObject, key[3])
             S4 == CreateGroup(S3, chromosomeObject, key[3])
             S5 == WriteDatasets(S4, groupObject, AggregateContent(data))
             S6 == LinkGene(S5, geneGroup, key[3], groupObject)
         IN  IF ~isNew /\ ~Has(S1, matrixGroup, chromosome)
             THEN Raise(S1, "KeyError")
             ELSE IF Has(S3, chromosomeObject, key[3])
             THEN Raise(S3, "ValueError")
             ELSE IF fault THEN Raise(S4, "OSError")
             ELSE IF Has(S5, geneGroup, key[3])
             THEN Raise(S5, "ValueError")
             ELSE Ok(S6)

\* Lines 198-263: one round of the outer loop, for the two samples of a work
\* item.
WriteAggregateItem(S, item, fault) ==
    LET matrix_combination_key == item.keys[1][1] \o "_" \o item.keys[2][1]
        matrixCombinationGroup == <<matrix_combination_key>>
        S0 == EnsureGroup(S, <<>>, matrix_combination_key)
        first == WriteSample(S0, matrixCombinationGroup, item.keys[1],
                             item.data[1], fault)
    IN  IF ~first.error.isNone THEN first
        ELSE WriteSample(first.store, matrixCombinationGroup, item.keys[2],
                         item.data[2], fault)

\* Lines 259-314: what is written for the entries of data_object.
ResultContent(gene_name, data_object) ==
    LET n == Len(data_object)
        last == data_object[n]
    IN  [chromosome |-> last[1][1],
         start_list |-> [k \in 1..n |-> data_object[k][1][2]],
         end_list |-> [k \in 1..n |-> data_object[k][1][3]],
         gene |-> gene_name,
         relative_distance_list |-> [k \in 1..n |-> data_object[k][1][6]],
         sum_of_interactions_1 |-> last[4][1],
         sum_of_interactions_2 |-> last[5][1],
         raw_target_list_1 |-> [k \in 1..n |-> data_object[k][4][2]],
         raw_target_list_2 |-> [k \in 1..n |-> data_object[k][5][2]],
         pvalue_list |-> [k \in 1..n |-> data_object[k][3]]]

\* Lines 254-314: one round of the loop over the categories.
WriteCategory(S, gene_object, gene_name, category, data_object) ==
    IF Len(data_object) = 0 THEN S
    ELSE WriteDatasets(S, Append(gene_object, category),
                       ResultContent(gene_name, data_object))

\* Lines 223-314: one round of the loop over pInputData, the entries of
\* pAcceptedData, pRejectedData and pAllResultData at the index of the item
\* being those of item.
WriteResultItem(S, item, fault) ==
    LET matrix1_name == item.input[1][2]
        matrix2_name == item.input[2][2]
        chromosome == item.input[1][3]
        gene_name == item.input[1][4]
        S1 == EnsureGroup(S, <<>>, matrix1_name)
        S2 == EnsureGroup(S1, <<matrix1_name>>, matrix2_name)
        chromosome_object == <<matrix1_name, matrix2_name, chromosome>>
        S3 == EnsureGroup(S2, <<matrix1_name, matrix2_name>>, chromosome)
        gene_object == Append(chromosome_object, gene_name)
        S4 == CreateGroup(S3, chromosome_object, gene_name)
        S5 == CreateGroup(S4, gene_object, "accepted")
        S6 == CreateGroup(S5, gene_object, "rejected")
        S7 == CreateGroup(S6, gene_object, "all")
        S8 == WriteCategory(S7, gene_object, gene_name, "accepted",
                            item.accepted)
        S9 == WriteCategory(S8, gene_object, gene_name, "rejected",
                            item.rejected)
    IN  IF Has(S3, chromosome_object, gene_name) THEN Raise(S3, "ValueError")
        ELSE IF fault /\ Len(item.all) > 0 THEN Raise(S7, "OSError")
        ELSE Ok(WriteCategory(S9, gene_object, gene_name, "all", item.all))

\* The records of one sample of work item j: none, or one, which names a
\* chromosome.
SampleData(j) == {<<>>} \cup {<<Rec(j, c, 0, 1)>> : c \in Chromosomes}

\* The work items main can make of gene j of the samples A and B.
AggregateItems(j) ==
    {[keys |-> <<<<"A", c, GeneNames[j]>>, <<"B", c, GeneNames[j]>>>>,
      data |-> <<d1, d2>>] :
        c \in Chromosomes, d1 \in SampleData(j), d2 \in SampleData(j)}

\* An entry of the lists of run_statistical_tests: the two lines, the
\* p-value and the two pairs tested.
Entry(j, c, p_value) ==
    <<Rec(j, c, 0, 1), Rec(j, c, 0, 1), p_value, <<2, 0>>, <<0, 2>>>>

\* The work items of the differential test for gene j, each with its
\* accepted, rejected and all entries.
ResultItems(j) ==
    UNION {{[input |-> <<<<"A_B", "A", c, GeneNames[j]>>,
                         <<"A_B", "B", c, GeneNames[j]>>>>,
             accepted |-> a, rejected |-> r, all |-> a \o r] :
                a \in {<<>>, <<Entry(j, c, One)>>},
                r \in {<<>>, <<Entry(j, c, Fraction(1, 3))>>}} :
           c \in Chromosomes}

\* The lists of n work items of either writer.
AggregateItemLists(n) ==
    {l \in [1..n -> UNION {AggregateItems(j) : j \in 1..n}] :
        \A j \in 1..n : l[j] \in AggregateItems(j)}

ResultItemLists(n) ==
    {l \in [1..n -> UNION {ResultItems(j) : j \in 1..n}] :
        \A j \in 1..n : l[j] \in ResultItems(j)}

\* A call of one of the writers; the file system may fail while the
\* datasets of one of the items are written.
InitHdf ==
    /\ DispIdle
    /\ AggIdle
    /\ TestIdle
    /\ hdfPc = "call"
    /\ hdfWriter \in {"aggregate", "result"}
    /\ \E n \in 0..MaxWrites :
          /\ hdfItems \in IF hdfWriter = "aggregate"
                          THEN AggregateItemLists(n)
                          ELSE ResultItemLists(n)
          /\ ioFault \in 0..n
    /\ hdfI = 0
    /\ h5Handle = "unopened"
    /\ h5Groups = {}
    /\ h5Data = {}
    /\ h5Links = {}
    /\ hdfError = NoneVal

\* The file as a value.
File == [groups |-> h5Groups, data |-> h5Data, links |-> h5Links]

\* One round of the loop of a writer: the item is written, or the writer
\* ends with the exception.
WriteItem(result) ==
    /\ h5Groups' = result.store.groups
    /\ h5Data' = result.store.data
    /\ h5Links' = result.store.links
    /\ IF result.error.isNone
       THEN /\ hdfI' = hdfI + 1
            /\ UNCHANGED <<hdfPc, hdfError>>
       ELSE /\ hdfPc' = "raised"
            /\ hdfError' = result.error
            /\ UNCHANGED hdfI
    /\ UNCHANGED <<dispVars, aggVars, testVars, hdfWriter, hdfItems, ioFault,
                   h5Handle>>

\* Line 195: h5py.File(pOutFileName, 'w')
AggregateFileOpen ==
    /\ hdfPc = "call"
    /\ hdfWriter = "aggregate"
    /\ h5Handle' = "open"
    /\ hdfPc' = "loop"
    /\ UNCHANGED <<dispVars, aggVars, testVars, hdfWriter, hdfItems, hdfI,
                   ioFault, h5Groups, h5Data, h5Links, hdfError>>

\* Lines 198-263
AggregateWriteItem ==
    /\ hdfPc = "loop"
    /\ hdfWriter = "aggregate"
    /\ hdfI < Len(hdfItems)
    /\ WriteItem(WriteAggregateItem(File, hdfItems[hdfI + 1],
                                    ioFault = hdfI + 1))

\* Line 266: aggregateFileH5Object.close()
AggregateFileClose ==
    /\ hdfPc = "loop"
    /\ hdfWriter = "aggregate"
    /\ hdfI = Len(hdfItems)
    /\ h5Handle' = "closed"
    /\ hdfPc' = "returned"
    /\ UNCHANGED <<dispVars, aggVars, testVars, hdfWriter, hdfItems, hdfI,
                   ioFault, h5Groups, h5Data, h5Links, hdfError>>

\* Lines 212-213: the file is opened and the attribute alpha is set.
ResultFileOpen ==
    /\ hdfPc = "call"
    /\ hdfWriter = "result"
    /\ h5Handle' = "open"
    /\ h5Data' = {[path |-> <<>>, content |-> [alpha |-> pAlpha]]}
    /\ hdfPc' = "loop"
    /\ UNCHANGED <<dispVars, aggVars, testVars, hdfWriter, hdfItems, hdfI,
                   ioFault, h5Groups, h5Links, hdfError>>

\* Lines 223-314
ResultWriteItem ==
    /\ hdfPc = "loop"
    /\ hdfWriter = "result"
    /\ hdfI < Len(hdfItems)
    /\ WriteItem(WriteResultItem(File, hdfItems[hdfI + 1],
                                 ioFault = hdfI + 1))

\* Line 317: resultFileH5Object.close()
ResultFileClose ==
    /\ hdfPc = "loop"
    /\ hdfWriter = "result"
    /\ hdfI = Len(hdfItems)
    /\ h5Handle' = "closed"
    /\ hdfPc' = "returned"
    /\ UNCHANGED <<dispVars, aggVars, testVars, hdfWriter, hdfItems, hdfI,
                   ioFault, h5Groups, h5Data, h5Links, hdfError>>

NextHdf ==
    \/ AggregateFileOpen
    \/ AggregateWriteItem
    \/ AggregateFileClose
    \/ ResultFileOpen
    \/ ResultWriteItem
    \/ ResultFileClose

SpecHdf == InitHdf /\ [][NextHdf]_vars

(***************************************************************************)
(* Properties of the writers of the output file.                           *)
(***************************************************************************)
\* The proper prefixes of a path, the root left out.
Ancestors(path) == {SubSeq(path, 1, k) : k \in 1..(Len(path) - 1)}

\* Where the key of sample k of an aggregation item puts its leaf.
AggregateLeaf(item, k) ==
    <<item.keys[1][1] \o "_" \o item.keys[2][1], item.keys[k][1],
      item.keys[k][2], item.keys[k][3]>>

\* Where the key of an item of the differential test puts its gene group.
ResultGene(item) ==
    <<item.input[1][2], item.input[2][2], item.input[1][3], item.input[1][4]>>

\* The leaves of the items gone through, for the samples that have records.
AggregateExpected ==
    UNION {{[path |-> AggregateLeaf(hdfItems[j], k),
             content |-> AggregateContent(hdfItems[j].data[k])] :
               k \in {h \in 1..2 : Len(hdfItems[j].data[h]) > 0}} :
           j \in 1..hdfI}

\* The same for the categories that have entries.
ResultExpected ==
    UNION {{[path |-> Append(ResultGene(hdfItems[j]), category),
             content |-> ResultContent(hdfItems[j].input[1][4],
                                       hdfItems[j][category])] :
               category \in {c \in {"accepted", "rejected", "all"} :
                               Len(hdfItems[j][c]) > 0}} :
           j \in 1..hdfI}

Expected ==
    IF hdfWriter = "aggregate" THEN AggregateExpected ELSE ResultExpected

\* C18: as long as the file system does not fail, no write of an item fails,
\* and after any number of items the leaf of every sample (or category) that
\* had records is in the file under the names its key gives, with what was
\* written into it, under groups that exist.
C18_AdditiveWrites ==
    hdfPc \in {"loop", "returned", "raised"} /\ ioFault = 0 =>
        /\ hdfPc # "raised"
        /\ \A leaf \in Expected :
              /\ leaf \in h5Data
              /\ leaf.path \in h5Groups
              /\ Ancestors(leaf.path) \subseteq h5Groups

\* The groups at the depth of the leaves: the gene groups of the aggregation
\* file, the accepted, rejected and all groups of the result file.
LeafGroups ==
    {g \in h5Groups : Len(g) = IF hdfWriter = "aggregate" THEN 4 ELSE 5}

\* C19: when a writer has returned, every leaf group of the file holds the
\* datasets of at least one record.
C19_NoEmptyLeaf ==
    hdfPc = "returned" =>
        \A g \in LeafGroups : \E d \in h5Data : d.path = g

\* C20: however a writer ends, by returning or by an exception, the file it
\* opened is closed.
C20_HandleReleased ==
    hdfPc \in {"returned", "raised"} => h5Handle = "closed"

\* The groups of the samples of the aggregation file.
SampleGroups == {g \in h5Groups : Len(g) = 2}

\* The names under the genes group of a sample, groups and references alike.
GenesEntries(m) ==
    {p[4] : p \in {q \in h5Groups \cup {l.path : l \in h5Links} :
                      Len(q) = 4 /\ SubSeq(q, 1, 3) = Append(m, "genes")}}

\* The gene leaves under the chromosome groups of a sample.
GeneLeaves(m) ==
    {g \in h5Groups : Len(g) = 4 /\ SubSeq(g, 1, 2) = m /\ g[3] # "genes"}

\* C21: when writeAggregateHDF has returned, for every sample group the
\* names under its genes group are the names of the gene leaves written under
\* its chromosome groups, and every entry of the genes group is a reference
\* to the written leaf of the same name under a chromosome of that sample,
\* not a group of its own.
C21_GenesIndex ==
    (hdfWriter = "aggregate" /\ hdfPc = "returned") =>
        \A m \in SampleGroups :
            /\ GenesEntries(m) = {g[4] : g \in GeneLeaves(m)}
            /\ \A n \in GenesEntries(m) :
                  /\ m \o <<"genes", n>> \notin h5Groups
                  /\ \E l \in h5Links :
                        /\ l.path = m \o <<"genes", n>>
                        /\ l.target \in GeneLeaves(m)
                        /\ l.target[4] = n
                        /\ \E d \in h5Data : d.path = l.target

\* Reached: the writer returned with a sample whose genes group lists two
\* genes, the leaves of which are under two chromosomes.
C21_Witness ==
    /\ hdfWriter = "aggregate"
    /\ hdfPc = "returned"
    /\ \E m \in SampleGroups :
          \E a, b \in h5Links :
              /\ SubSeq(a.path, 1, 3) = Append(m, "genes")
              /\ SubSeq(b.path, 1, 3) = Append(m, "genes")
              /\ a.path[4] # b.path[4]
              /\ a.target[3] # b.target[3]

====
